---- MODULE Spec2Model ----
(***************************************************************************)
(* State-machine model of the ESP32 pool controller firmware               *)
(* (firmware/src/main.cpp, firmware/src/ble_provisioning.cpp).             *)
(*                                                                         *)
(* The C functions are modelled as operators from a state record s (one    *)
(* field per global / static / library state) to the state record after    *)
(* the call.  Actions apply such an operator to the current state.         *)
(* Strings that the code scans (MQTT payloads) are sequences of one        *)
(* character strings; all indices are 0-based as in the Arduino String API.*)
(***************************************************************************)
EXTENDS Integers, Sequences, FiniteSets, TLC

VARIABLES
  pumpState, valveMode, currentTemperature, wifiProvisioned,
  timerActive, timerMode, timerDuration, timerRemaining, timerLastUpdate,
  lastPublish,
  lastBLECheck, lastWiFiCheck, reconnectAttempts, lastWiFiUpdate,
  lastTempUpdate,
  bleActive, newCredentialsReceived, receivedSSID, receivedPassword,
  clearWiFiRequested, statusValue, networksValue, scanResults,
  nvs,
  wifiStatus, wifiSSID, mqttConnected, subscriptions, retained,
  now, pc, locSsid, log, hist

vars == << pumpState, valveMode, currentTemperature, wifiProvisioned,
           timerActive, timerMode, timerDuration, timerRemaining,
           timerLastUpdate, lastPublish,
           lastBLECheck, lastWiFiCheck, reconnectAttempts, lastWiFiUpdate,
           lastTempUpdate,
           bleActive, newCredentialsReceived, receivedSSID, receivedPassword,
           clearWiFiRequested, statusValue, networksValue, scanResults,
           nvs,
           wifiStatus, wifiSSID, mqttConnected, subscriptions, retained,
           now, pc, locSsid, log, hist >>

----------------------------------------------------------------------------
(* Timing constants, main.cpp lines 19-28 (milliseconds).                  *)
VALVE_SWITCH_DELAY == 500
WIFI_CONNECT_TIMEOUT == 15000
WIFI_RECONNECT_INTERVAL == 10000
WIFI_RETRY_ATTEMPTS == 3
WIFI_RETRY_DELAY == 5000
WIFI_STATE_INTERVAL == 30000
TIMER_PUBLISH_INTERVAL == 10000
TEMP_PUBLISH_INTERVAL == 60000
BLE_CHECK_INTERVAL == 1000
(* delay(500) of the status poll inside connectWiFi (line 599); the sizes  *)
(* of the credential buffers less the terminator (lines 536-539).          *)
WIFI_POLL_DELAY == 500
SSID_MAX == 32
PASSWORD_MAX == 63
(* ble_provisioning.cpp: the radio settling delay of a scan and the size   *)
(* budget of the network listing.                                          *)
SCAN_RADIO_DELAY == 100
NETWORKS_BUDGET == 400

(* Bounds of the model.                                                    *)
MaxTime == 60000
MaxIdle == 12000
MaxDuration == 3
MaxElapsed == 2
MaxUnitTime == 4000
MaxTimerTime == 20000
MaxNetworks == 7
MaxScans == 2

(* Topics, config.h lines 24-47.                                           *)
TOPIC_PUMP_SET == "devices/esp32-pool-01/pump/set"
TOPIC_PUMP_STATE == "devices/esp32-pool-01/pump/state"
TOPIC_VALVE_SET == "devices/esp32-pool-01/valve/set"
TOPIC_VALVE_STATE == "devices/esp32-pool-01/valve/state"
TOPIC_WIFI_STATE == "devices/esp32-pool-01/wifi/state"
TOPIC_WIFI_CLEAR == "devices/esp32-pool-01/wifi/clear"
TOPIC_TIMER_SET == "devices/esp32-pool-01/timer/set"
TOPIC_TIMER_STATE == "devices/esp32-pool-01/timer/state"
TOPIC_TEMP_STATE == "devices/esp32-pool-01/temperature/state"

StateTopics == { TOPIC_PUMP_STATE, TOPIC_VALVE_STATE, TOPIC_WIFI_STATE,
                 TOPIC_TIMER_STATE, TOPIC_TEMP_STATE }

(* BLE characteristic UUIDs, ble_provisioning.cpp lines 14-19.             *)
SSID_CHAR_UUID == "beb5483e-36e1-4688-b7f5-ea07361b26a8"
PASSWORD_CHAR_UUID == "cba1d466-344c-4be3-ab3f-189f80dd7518"
NETWORKS_CHAR_UUID == "fa87c0d0-afac-11de-8a39-0800200c9a66"
COMMAND_CHAR_UUID == "8b9d68c4-57b8-4b02-bf19-6fd94b62f709"

(* A float that is NAN is the empty sequence, a number t is << t >>, in      *)
(* tenths of a degree.                                                     *)
NAN == << >>
DEVICE_DISCONNECTED_C == -1270

----------------------------------------------------------------------------
(* Arduino String operations on sequences of characters.                   *)

Min(a, b) == IF a < b THEN a ELSE b

LowerChars == << "a","b","c","d","e","f","g","h","i","j","k","l","m",
                 "n","o","p","q","r","s","t","u","v","w","x","y","z" >>
UpperChars == << "A","B","C","D","E","F","G","H","I","J","K","L","M",
                 "N","O","P","Q","R","S","T","U","V","W","X","Y","Z" >>
SpaceChars == { " ", "\t", "\n", "\r" }
DigitChars == << "0","1","2","3","4","5","6","7","8","9" >>

toupper(c) ==
  IF \E i \in 1..Len(LowerChars) : LowerChars[i] = c
  THEN UpperChars[CHOOSE i \in 1..Len(LowerChars) : LowerChars[i] = c]
  ELSE c

(* String::toUpperCase: every character replaced by toupper of it.         *)
toUpperCase(str) == [i \in 1..Len(str) |-> toupper(str[i])]

(* String::trim: white space removed at both ends.                         *)
trim(str) ==
  LET keep == { i \in 1..Len(str) : str[i] \notin SpaceChars }
      first == CHOOSE i \in keep : \A j \in keep : i <= j
      last == CHOOSE i \in keep : \A j \in keep : j <= i
  IN  IF keep = {} THEN << >> ELSE SubSeq(str, first, last)

(* String::indexOf(pattern, fromIndex): 0-based index of the first         *)
(* occurrence at or after fromIndex, -1 when there is none.                *)
indexOf(str, pat, fromIndex) ==
  LET hits == { i \in fromIndex..(Len(str) - Len(pat)) :
                  SubSeq(str, i + 1, i + Len(pat)) = pat }
  IN  IF fromIndex >= Len(str) \/ hits = {} THEN -1
      ELSE CHOOSE i \in hits : \A j \in hits : i <= j

(* String::substring(left, right) with unsigned arguments: a negative int  *)
(* converts to a value above every length, left > right are swapped, right *)
(* is capped at the length.                                                *)
substring(str, left, right) ==
  LET ul == IF left < 0 THEN Len(str) + 1 ELSE left
      ur == IF right < 0 THEN Len(str) + 1 ELSE right
      lo == IF ul > ur THEN ur ELSE ul
      hi0 == IF ul > ur THEN ul ELSE ur
      hi == Min(hi0, Len(str))
  IN  IF lo >= Len(str) THEN << >> ELSE SubSeq(str, lo + 1, hi)

IsDigit(c) == \E i \in 1..10 : DigitChars[i] = c
DigitVal(c) == (CHOOSE i \in 1..10 : DigitChars[i] = c) - 1

RECURSIVE DigitsValue(_, _)
DigitsValue(str, acc) ==
  IF str = << >> \/ ~IsDigit(Head(str)) THEN acc
  ELSE DigitsValue(Tail(str), acc * 10 + DigitVal(Head(str)))

RECURSIVE SkipSpaces(_)
SkipSpaces(str) ==
  IF str # << >> /\ Head(str) \in SpaceChars THEN SkipSpaces(Tail(str))
  ELSE str

(* String::toInt (atol): leading white space, optional sign, digits up to  *)
(* the first non-digit; 0 when there is no digit.                          *)
toInt(str) ==
  LET t == SkipSpaces(str)
  IN  IF t = << >> THEN 0
      ELSE IF Head(t) = "-" THEN 0 - DigitsValue(Tail(t), 0)
      ELSE IF Head(t) = "+" THEN DigitsValue(Tail(t), 0)
      ELSE DigitsValue(t, 0)

(* payloadToString, main.cpp 67-73: the bytes as a String, trimmed.        *)
payloadToString(payload) == trim(payload)

(* strncpy(dst, src, n); dst[n] = 0 of the credential getters.             *)
strncpy(str, n) == SubSeq(str, 1, Min(Len(str), n))

----------------------------------------------------------------------------
(* The state record: one field per variable, and ret, the return value of  *)
(* the last function that returns a bool.                                  *)

Cur ==
  [ pumpState |-> pumpState, valveMode |-> valveMode,
    currentTemperature |-> currentTemperature,
    wifiProvisioned |-> wifiProvisioned,
    timerActive |-> timerActive, timerMode |-> timerMode,
    timerDuration |-> timerDuration, timerRemaining |-> timerRemaining,
    timerLastUpdate |-> timerLastUpdate, lastPublish |-> lastPublish,
    lastBLECheck |-> lastBLECheck, lastWiFiCheck |-> lastWiFiCheck,
    reconnectAttempts |-> reconnectAttempts,
    lastWiFiUpdate |-> lastWiFiUpdate, lastTempUpdate |-> lastTempUpdate,
    bleActive |-> bleActive,
    newCredentialsReceived |-> newCredentialsReceived,
    receivedSSID |-> receivedSSID, receivedPassword |-> receivedPassword,
    clearWiFiRequested |-> clearWiFiRequested, statusValue |-> statusValue,
    networksValue |-> networksValue, scanResults |-> scanResults,
    nvs |-> nvs, wifiStatus |-> wifiStatus, wifiSSID |-> wifiSSID,
    mqttConnected |-> mqttConnected, subscriptions |-> subscriptions,
    retained |-> retained, now |-> now, pc |-> pc, locSsid |-> locSsid,
    log |-> log, ret |-> FALSE ]

(* The state at the start of a handler: the event log holds the events of  *)
(* one handler run.                                                        *)
Fresh == [Cur EXCEPT !.log = << >>]

Apply(r) ==
  /\ pumpState' = r.pumpState
  /\ valveMode' = r.valveMode
  /\ currentTemperature' = r.currentTemperature
  /\ wifiProvisioned' = r.wifiProvisioned
  /\ timerActive' = r.timerActive
  /\ timerMode' = r.timerMode
  /\ timerDuration' = r.timerDuration
  /\ timerRemaining' = r.timerRemaining
  /\ timerLastUpdate' = r.timerLastUpdate
  /\ lastPublish' = r.lastPublish
  /\ lastBLECheck' = r.lastBLECheck
  /\ lastWiFiCheck' = r.lastWiFiCheck
  /\ reconnectAttempts' = r.reconnectAttempts
  /\ lastWiFiUpdate' = r.lastWiFiUpdate
  /\ lastTempUpdate' = r.lastTempUpdate
  /\ bleActive' = r.bleActive
  /\ newCredentialsReceived' = r.newCredentialsReceived
  /\ receivedSSID' = r.receivedSSID
  /\ receivedPassword' = r.receivedPassword
  /\ clearWiFiRequested' = r.clearWiFiRequested
  /\ statusValue' = r.statusValue
  /\ networksValue' = r.networksValue
  /\ scanResults' = r.scanResults
  /\ nvs' = r.nvs
  /\ wifiStatus' = r.wifiStatus
  /\ wifiSSID' = r.wifiSSID
  /\ mqttConnected' = r.mqttConnected
  /\ subscriptions' = r.subscriptions
  /\ retained' = r.retained
  /\ now' = r.now
  /\ pc' = r.pc
  /\ locSsid' = r.locSsid
  /\ log' = r.log

Emit(s, e) == [s EXCEPT !.log = Append(@, e)]

(* delay(ms): the clock advances while the caller blocks.                  *)
delay(s, ms) ==
  [Emit(s, [ev |-> "delay", ms |-> ms]) EXCEPT !.now = @ + ms]

----------------------------------------------------------------------------
(* MQTT state publishing, main.cpp 102-214.                                *)

(* mqtt.publish(topic, payload, true): delivered, and retained by the      *)
(* broker, only while the session is connected.                            *)
mqttPublish(s, topic, payload) ==
  LET e == [ev |-> "publish", topic |-> topic, payload |-> payload,
            retain |-> TRUE, ok |-> s.mqttConnected]
      t == Emit(s, e)
  IN  IF s.mqttConnected
      THEN [t EXCEPT !.retained = [@ EXCEPT ![topic] = << payload >>]]
      ELSE t

publishPumpState(s) ==
  mqttPublish(s, TOPIC_PUMP_STATE, IF s.pumpState THEN "ON" ELSE "OFF")

(* msg[0] = '0' + valveMode                                                *)
publishValveState(s) ==
  mqttPublish(s, TOPIC_VALVE_STATE, DigitChars[s.valveMode + 1])

WiFiDisconnectedJson == [status |-> "disconnected"]

(* The rssi and quality fields of the connected status are left out.       *)
publishWiFiState(s) ==
  IF ~s.wifiStatus
  THEN mqttPublish(s, TOPIC_WIFI_STATE, WiFiDisconnectedJson)
  ELSE mqttPublish(s, TOPIC_WIFI_STATE,
                   [status |-> "connected", ssid |-> s.wifiSSID])

TimerJson(s) ==
  [active |-> s.timerActive, remaining |-> s.timerRemaining,
   mode |-> s.timerMode, duration |-> s.timerDuration]

publishTimerState(s) == mqttPublish(s, TOPIC_TIMER_STATE, TimerJson(s))

(* dtostrf(currentTemperature, 4, 1, tempStr): one decimal, which is the   *)
(* number of tenths.                                                       *)
publishTemperature(s) ==
  IF s.currentTemperature = NAN THEN s
  ELSE mqttPublish(s, TOPIC_TEMP_STATE, s.currentTemperature[1])

(* readTemperature, main.cpp 81-94: raw is what getTempCByIndex(0)         *)
(* delivers, in tenths; NAN on a disconnected sensor.                      *)
readTemperature(raw) ==
  IF raw = DEVICE_DISCONNECTED_C THEN NAN ELSE << raw >>

----------------------------------------------------------------------------
(* Relay control and control logic, main.cpp 222-286.                      *)

setPumpRelay(s, targetState) ==
  [Emit(s, [ev |-> "relay", pin |-> "pump", level |-> targetState])
     EXCEPT !.pumpState = targetState]

setValveRelay(s, targetMode) ==
  IF targetMode # 1 /\ targetMode # 2 THEN s
  ELSE [Emit(s, [ev |-> "relay", pin |-> "valve",
                 level |-> (targetMode = 2)])
          EXCEPT !.valveMode = targetMode]

setPumpState(s, targetState) ==
  publishPumpState(setPumpRelay(s, targetState))

(* Variant: a setValveMode that writes the relay on every call.            *)
setValveMode_alwaysWrite(s, targetMode) ==
  IF targetMode # 1 /\ targetMode # 2 THEN s
  ELSE publishValveState(setValveRelay(s, targetMode))

setValveMode(s, targetMode) ==
  IF targetMode # 1 /\ targetMode # 2 THEN s
  ELSE IF s.valveMode = targetMode THEN publishValveState(s)
  ELSE publishValveState(setValveRelay(s, targetMode))

----------------------------------------------------------------------------
(* Timer control, main.cpp 301-393.                                        *)

(* The assignment of the timer variables by one of the timer functions,    *)
(* as an event of the log.                                                 *)
TimerEvent(s, by) ==
  [ev |-> "timer", by |-> by, active |-> s.timerActive,
   remaining |-> s.timerRemaining]

(* Variant: a startTimer that energizes the pump before it switches the    *)
(* valves.                                                                 *)
startTimer_pumpFirst(s, mode, durationSeconds) ==
  IF mode # 1 /\ mode # 2 THEN s
  ELSE IF durationSeconds = 0 THEN s
  ELSE LET s1 == [s EXCEPT !.timerActive = TRUE,
                           !.timerMode = mode,
                           !.timerDuration = durationSeconds,
                           !.timerRemaining = durationSeconds,
                           !.timerLastUpdate = s.now]
           s2 == Emit(s1, TimerEvent(s1, "start"))
           s3 == setPumpState(s2, TRUE)
           s4 == delay(s3, VALVE_SWITCH_DELAY)
           s5 == setValveMode(s4, mode)
       IN  publishTimerState(s5)

(* Variant: a startTimer without the check of the duration.                *)
startTimer_anyDuration(s, mode, durationSeconds) ==
  IF mode # 1 /\ mode # 2 THEN s
  ELSE LET s1 == [s EXCEPT !.timerActive = TRUE,
                           !.timerMode = mode,
                           !.timerDuration = durationSeconds,
                           !.timerRemaining = durationSeconds,
                           !.timerLastUpdate = s.now]
           s2 == Emit(s1, TimerEvent(s1, "start"))
           s3 == setValveMode(s2, mode)
           s4 == delay(s3, VALVE_SWITCH_DELAY)
           s5 == setPumpState(s4, TRUE)
       IN  publishTimerState(s5)

startTimer(s, mode, durationSeconds) ==
  IF mode # 1 /\ mode # 2 THEN s
  ELSE IF durationSeconds = 0 THEN s
  ELSE LET s1 == [s EXCEPT !.timerActive = TRUE,
                           !.timerMode = mode,
                           !.timerDuration = durationSeconds,
                           !.timerRemaining = durationSeconds,
                           !.timerLastUpdate = s.now]
           s2 == Emit(s1, TimerEvent(s1, "start"))
           s3 == setValveMode(s2, mode)
           s4 == delay(s3, VALVE_SWITCH_DELAY)
           s5 == setPumpState(s4, TRUE)
       IN  publishTimerState(s5)

(* Variant: a stopTimer without the check of timerActive.                  *)
stopTimer_unguarded(s) ==
  LET s1 == [s EXCEPT !.timerActive = FALSE, !.timerRemaining = 0]
      s2 == Emit(s1, TimerEvent(s1, "stop"))
      s3 == setPumpState(s2, FALSE)
  IN  publishTimerState(s3)

(* Variant: a stopTimer that leaves the remaining time as it was.          *)
stopTimer_keepRemaining(s) ==
  IF ~s.timerActive THEN s
  ELSE LET s1 == [s EXCEPT !.timerActive = FALSE]
           s2 == Emit(s1, TimerEvent(s1, "stop"))
           s3 == setPumpState(s2, FALSE)
       IN  publishTimerState(s3)

stopTimer(s) ==
  IF ~s.timerActive THEN s
  ELSE LET s1 == [s EXCEPT !.timerActive = FALSE, !.timerRemaining = 0]
           s2 == Emit(s1, TimerEvent(s1, "stop"))
           s3 == setPumpState(s2, FALSE)
       IN  publishTimerState(s3)

(* Variant: an updateTimer that publishes on the multiples of 10 and in    *)
(* the last 10 seconds only.                                               *)
updateTimer_noInterval(s) ==
  IF ~s.timerActive THEN s
  ELSE LET elapsed == (s.now - s.timerLastUpdate) \div 1000
           s1 == [s EXCEPT !.timerLastUpdate = s.now]
       IN  IF elapsed >= 1
           THEN IF s1.timerRemaining > 0
                THEN LET s2 == [s1 EXCEPT !.timerRemaining = @ - 1]
                         s3 == Emit(s2, TimerEvent(s2, "tick"))
                     IN  IF \/ s3.timerRemaining % 10 = 0
                            \/ s3.timerRemaining <= 10
                         THEN publishTimerState(
                                [s3 EXCEPT !.lastPublish = s3.now])
                         ELSE s3
                ELSE stopTimer(s1)
           ELSE s

updateTimer(s) ==
  IF ~s.timerActive THEN s
  ELSE LET elapsed == (s.now - s.timerLastUpdate) \div 1000
           s1 == [s EXCEPT !.timerLastUpdate = s.now]
       IN  IF elapsed >= 1
           THEN IF s1.timerRemaining > 0
                THEN LET s2 == [s1 EXCEPT !.timerRemaining = @ - 1]
                         s3 == Emit(s2, TimerEvent(s2, "tick"))
                     IN  IF \/ s3.timerRemaining % 10 = 0
                            \/ s3.timerRemaining <= 10
                            \/ (s3.now - s3.lastPublish)
                                 > TIMER_PUBLISH_INTERVAL
                         THEN publishTimerState(
                                [s3 EXCEPT !.lastPublish = s3.now])
                         ELSE s3
                ELSE stopTimer(s1)
           ELSE s


----------------------------------------------------------------------------
(* Credential store (NVS namespace "wifi"), main.cpp 523-572.              *)

NoCredentials == [ssid |-> << >>, password |-> << >>]

loadWiFiCredentials(s) ==
  IF Len(s.nvs.ssid) = 0
  THEN [ok |-> FALSE, ssid |-> << >>, password |-> << >>]
  ELSE [ok |-> TRUE, ssid |-> strncpy(s.nvs.ssid, SSID_MAX),
        password |-> strncpy(s.nvs.password, PASSWORD_MAX)]

saveWiFiCredentials(s, ssid, password) ==
  [Emit(s, [ev |-> "nvs_save", ssid |-> ssid, password |-> password])
     EXCEPT !.nvs = [ssid |-> ssid, password |-> password]]

clearWiFiCredentials(s) ==
  [Emit(s, [ev |-> "nvs_clear"]) EXCEPT !.nvs = NoCredentials]

----------------------------------------------------------------------------
(* Library calls used by the wifi/clear command.                           *)

(* mqtt.disconnect()                                                       *)
mqttDisconnect(s) ==
  [Emit(s, [ev |-> "mqtt_disconnect"])
     EXCEPT !.mqttConnected = FALSE, !.subscriptions = {}]

(* WiFi.disconnect(wifioff, erasePersistent)                               *)
wifiDisconnect(s, erase) ==
  [Emit(s, [ev |-> "wifi_disconnect", erase |-> erase])
     EXCEPT !.wifiStatus = FALSE, !.wifiSSID = << >>,
            !.mqttConnected = FALSE, !.subscriptions = {}]

(* ESP.restart(): does not return.  The run of the model ends here: the    *)
(* next life of the device is a run from Init with the credential store    *)
(* as this one left it.                                                    *)
espRestart(s) == [Emit(s, [ev |-> "restart"]) EXCEPT !.pc = "restart"]

----------------------------------------------------------------------------
(* MQTT message handler, main.cpp 407-509.                                 *)

ChON == << "O", "N" >>
ChOFF == << "O", "F", "F" >>
ChTOGGLE == << "T", "O", "G", "G", "L", "E" >>
Ch0 == << "0" >>
Ch1 == << "1" >>
Ch2 == << "2" >>
ChModeKey == << "\"", "m", "o", "d", "e", "\"", ":" >>
ChDurationKey ==
  << "\"", "d", "u", "r", "a", "t", "i", "o", "n", "\"", ":" >>

(* The timer branch, main.cpp 448-487, on the upper-cased message.  The    *)
(* durations of the model's messages are unsigned, so the conversion of    *)
(* toInt's result to uint32_t changes no value.                            *)
timerCommand(s, msg) ==
  LET modeIdx == indexOf(msg, ChModeKey, 0)
      durationIdx == indexOf(msg, ChDurationKey, 0)
      modeStart == indexOf(msg, << ":" >>, modeIdx) + 1
      modeEnd0 == indexOf(msg, << "," >>, modeStart)
      modeEnd == IF modeEnd0 = -1 THEN indexOf(msg, << "}" >>, modeStart)
                 ELSE modeEnd0
      mode == toInt(trim(substring(msg, modeStart, modeEnd)))
      durationStart == indexOf(msg, << ":" >>, durationIdx) + 1
      durationEnd0 == indexOf(msg, << "}" >>, durationStart)
      durationEnd == IF durationEnd0 = -1 THEN Len(msg) ELSE durationEnd0
      duration == toInt(trim(substring(msg, durationStart, durationEnd)))
  IN  IF modeIdx = -1 \/ durationIdx = -1 THEN s
      ELSE IF duration = 0 THEN stopTimer(s)
      ELSE startTimer(s, mode, duration)

(* Variant: a wifi/clear branch that tears the session down before it     *)
(* publishes the disconnected status.                                      *)
wifiClearCommand_teardownFirst(s) ==
  LET s1 == mqttDisconnect(s)
      s2 == mqttPublish(s1, TOPIC_WIFI_STATE, WiFiDisconnectedJson)
      s3 == delay(s2, 100)
      s4 == wifiDisconnect(s3, TRUE)
      s5 == clearWiFiCredentials(s4)
      s6 == delay(s5, 2000)
  IN  espRestart(s6)

(* The wifi/clear branch, main.cpp 490-508.                                *)
wifiClearCommand(s) ==
  LET s1 == mqttPublish(s, TOPIC_WIFI_STATE, WiFiDisconnectedJson)
      s2 == delay(s1, 100)
      s3 == mqttDisconnect(s2)
      s4 == wifiDisconnect(s3, TRUE)
      s5 == clearWiFiCredentials(s4)
      s6 == delay(s5, 2000)
  IN  espRestart(s6)

(* Variant: a handler whose pump TOGGLE switches the pump on.              *)
onMqttMessage_toggleOn(s, topic, payload) ==
  LET msg == toUpperCase(payloadToString(payload))
      s0 == Emit(s, [ev |-> "dispatch", topic |-> topic,
                     payload |-> payload])
  IN  IF topic = TOPIC_PUMP_SET
      THEN IF msg = ChON \/ msg = Ch1 \/ msg = ChTOGGLE
           THEN setPumpState(s0, TRUE)
           ELSE IF msg = ChOFF \/ msg = Ch0 THEN setPumpState(s0, FALSE)
           ELSE s0
      ELSE IF topic = TOPIC_VALVE_SET
      THEN IF msg = Ch1 THEN setValveMode(s0, 1)
           ELSE IF msg = Ch2 THEN setValveMode(s0, 2)
           ELSE IF msg = ChTOGGLE
                THEN setValveMode(s0, IF s0.valveMode = 1 THEN 2 ELSE 1)
           ELSE s0
      ELSE IF topic = TOPIC_TIMER_SET THEN timerCommand(s0, msg)
      ELSE IF topic = TOPIC_WIFI_CLEAR THEN wifiClearCommand(s0)
      ELSE s0

(* Variant: a handler whose pump branch treats every payload it does not   *)
(* recognise as OFF.                                                       *)
onMqttMessage_defaultOff(s, topic, payload) ==
  LET msg == toUpperCase(payloadToString(payload))
      s0 == Emit(s, [ev |-> "dispatch", topic |-> topic,
                     payload |-> payload])
  IN  IF topic = TOPIC_PUMP_SET
      THEN IF msg = ChON \/ msg = Ch1 THEN setPumpState(s0, TRUE)
           ELSE IF msg = ChTOGGLE THEN setPumpState(s0, ~s0.pumpState)
           ELSE setPumpState(s0, FALSE)
      ELSE IF topic = TOPIC_VALVE_SET
      THEN IF msg = Ch1 THEN setValveMode(s0, 1)
           ELSE IF msg = Ch2 THEN setValveMode(s0, 2)
           ELSE IF msg = ChTOGGLE
                THEN setValveMode(s0, IF s0.valveMode = 1 THEN 2 ELSE 1)
           ELSE s0
      ELSE IF topic = TOPIC_TIMER_SET THEN timerCommand(s0, msg)
      ELSE IF topic = TOPIC_WIFI_CLEAR THEN wifiClearCommand(s0)
      ELSE s0

onMqttMessage(s, topic, payload) ==
  LET msg == toUpperCase(payloadToString(payload))
      s0 == Emit(s, [ev |-> "dispatch", topic |-> topic,
                     payload |-> payload])
  IN  IF topic = TOPIC_PUMP_SET
      THEN IF msg = ChON \/ msg = Ch1 THEN setPumpState(s0, TRUE)
           ELSE IF msg = ChOFF \/ msg = Ch0 THEN setPumpState(s0, FALSE)
           ELSE IF msg = ChTOGGLE THEN setPumpState(s0, ~s0.pumpState)
           ELSE s0
      ELSE IF topic = TOPIC_VALVE_SET
      THEN IF msg = Ch1 THEN setValveMode(s0, 1)
           ELSE IF msg = Ch2 THEN setValveMode(s0, 2)
           ELSE IF msg = ChTOGGLE
                THEN setValveMode(s0, IF s0.valveMode = 1 THEN 2 ELSE 1)
           ELSE s0
      ELSE IF topic = TOPIC_TIMER_SET THEN timerCommand(s0, msg)
      ELSE IF topic = TOPIC_WIFI_CLEAR THEN wifiClearCommand(s0)
      ELSE s0


----------------------------------------------------------------------------
(* BLE provisioning, ble_provisioning.cpp.                                 *)

ChClearWifi == << "c", "l", "e", "a", "r", "_", "w", "i", "f", "i" >>

setStatus(s, value) == [s EXCEPT !.statusValue = value]

(* scanWiFiNetworks, ble_provisioning.cpp 283-348.  A scan result is a     *)
(* sequence of [ssid, rssi, open] records in the order WiFi.SSID(i),       *)
(* WiFi.RSSI(i) and WiFi.encryptionType(i) report them; the listing is the *)
(* JSON text, one character per byte.                                      *)

ChEntryHead == << "{", "\"", "s", "s", "i", "d", "\"", ":", "\"" >>
ChEntryRssi == << "\"", ",", "\"", "r", "s", "s", "i", "\"", ":" >>
ChEntryOpen == << ",", "\"", "o", "p", "e", "n", "\"", ":" >>
ChTrue == << "t", "r", "u", "e" >>
ChFalse == << "f", "a", "l", "s", "e" >>

DigitChar(d) ==
  CASE d = 0 -> "0" [] d = 1 -> "1" [] d = 2 -> "2" [] d = 3 -> "3"
    [] d = 4 -> "4" [] d = 5 -> "5" [] d = 6 -> "6" [] d = 7 -> "7"
    [] d = 8 -> "8" [] d = 9 -> "9"

(* String(int): the decimal digits, with a minus sign when negative.       *)
RECURSIVE Decimal(_)
Decimal(n) ==
  IF n < 10 THEN << DigitChar(n) >>
  ELSE Append(Decimal(n \div 10), DigitChar(n % 10))

StringOfInt(n) == IF n < 0 THEN << "-" >> \o Decimal(0 - n) ELSE Decimal(n)

(* The network entry built at lines 316-322.                               *)
NetworkEntry(net) ==
  ChEntryHead \o net.ssid \o ChEntryRssi \o StringOfInt(net.rssi)
    \o ChEntryOpen \o (IF net.open THEN ChTrue ELSE ChFalse) \o << "}" >>

(* The loop of lines 306-335 from index i on: json is the text so far,     *)
(* networkCount the entries in it.                                         *)
RECURSIVE scanLoop(_, _, _, _)
scanLoop(results, i, json, networkCount) ==
  IF i > Len(results) THEN json
  ELSE IF Len(results[i].ssid) = 0
       THEN scanLoop(results, i + 1, json, networkCount)
  ELSE LET entry == NetworkEntry(results[i])
           projectedSize == Len(json) + Len(entry)
                              + (IF networkCount > 0 THEN 1 ELSE 0) + 1
       IN  IF projectedSize > NETWORKS_BUDGET THEN json
           ELSE scanLoop(results, i + 1,
                         (IF networkCount > 0 THEN json \o << "," >>
                          ELSE json) \o entry,
                         networkCount + 1)

(* Variant: a scan whose size projection leaves out the separator and the  *)
(* closing bracket.                                                        *)
RECURSIVE scanLoop_entryOnly(_, _, _, _)
scanLoop_entryOnly(results, i, json, networkCount) ==
  IF i > Len(results) THEN json
  ELSE IF Len(results[i].ssid) = 0
       THEN scanLoop_entryOnly(results, i + 1, json, networkCount)
  ELSE LET entry == NetworkEntry(results[i])
           projectedSize == Len(json) + Len(entry)
       IN  IF projectedSize > NETWORKS_BUDGET THEN json
           ELSE scanLoop_entryOnly(results, i + 1,
                                   (IF networkCount > 0 THEN json \o << "," >>
                                    ELSE json) \o entry,
                                   networkCount + 1)

scanWiFiNetworks_entryOnly(results) ==
  IF Len(results) = 0 THEN << "[", "]" >>
  ELSE scanLoop_entryOnly(results, 1, << "[" >>, 0) \o << "]" >>

(* A failed scan (-1) and an empty one (0) both leave no result to read.   *)
scanWiFiNetworks(results) ==
  IF Len(results) = 0 THEN << "[", "]" >>
  ELSE scanLoop(results, 1, << "[" >>, 0) \o << "]" >>

(* Variant: a write handler that checks for a complete pair after a write  *)
(* to either credential characteristic.                                    *)
onWrite_eitherOrder(s, uuid, value) ==
  LET s0 == Emit(s, [ev |-> "ble_write", uuid |-> uuid, value |-> value])
      complete(u) ==
        IF Len(u.receivedSSID) > 0 /\ Len(u.receivedPassword) > 0
        THEN setStatus([u EXCEPT !.newCredentialsReceived = TRUE],
                       "credentials_ready")
        ELSE u
  IN  IF uuid = SSID_CHAR_UUID
      THEN complete(setStatus([s0 EXCEPT !.receivedSSID = value],
                              "ssid_received"))
      ELSE IF uuid = PASSWORD_CHAR_UUID
      THEN complete(setStatus([s0 EXCEPT !.receivedPassword = value],
                              "password_received"))
      ELSE IF uuid = NETWORKS_CHAR_UUID
      THEN LET s1 == delay(s0, SCAN_RADIO_DELAY)
           IN  [s1 EXCEPT !.networksValue = scanWiFiNetworks(s1.scanResults)]
      ELSE IF uuid = COMMAND_CHAR_UUID
      THEN IF value = ChClearWifi
           THEN setStatus([s0 EXCEPT !.clearWiFiRequested = TRUE],
                          "clear_wifi_requested")
           ELSE s0
      ELSE s0

(* CharacteristicCallbacks::onWrite, ble_provisioning.cpp 68-131.  A write *)
(* to the networks characteristic scans and stores the listing as the      *)
(* characteristic's value.                                                 *)
onWrite(s, uuid, value) ==
  LET s0 == Emit(s, [ev |-> "ble_write", uuid |-> uuid, value |-> value])
  IN  IF uuid = SSID_CHAR_UUID
      THEN setStatus([s0 EXCEPT !.receivedSSID = value], "ssid_received")
      ELSE IF uuid = PASSWORD_CHAR_UUID
      THEN LET s1 == setStatus([s0 EXCEPT !.receivedPassword = value],
                               "password_received")
           IN  IF Len(s1.receivedSSID) > 0 /\ Len(s1.receivedPassword) > 0
               THEN setStatus([s1 EXCEPT !.newCredentialsReceived = TRUE],
                              "credentials_ready")
               ELSE s1
      ELSE IF uuid = NETWORKS_CHAR_UUID
      THEN LET s1 == delay(s0, SCAN_RADIO_DELAY)
           IN  [s1 EXCEPT !.networksValue = scanWiFiNetworks(s1.scanResults)]
      ELSE IF uuid = COMMAND_CHAR_UUID
      THEN IF value = ChClearWifi
           THEN setStatus([s0 EXCEPT !.clearWiFiRequested = TRUE],
                          "clear_wifi_requested")
           ELSE s0
      ELSE s0

(* initBLEProvisioning, ble_provisioning.cpp 148-230: the status reads     *)
(* "waiting" and the networks characteristic holds the empty list.         *)
initBLEProvisioning(s) ==
  [Emit(s, [ev |-> "ble_init"])
     EXCEPT !.statusValue = "waiting", !.networksValue = << "[", "]" >>,
            !.bleActive = TRUE]

(* NimBLEDevice::deinit(true) deletes the service with its attributes, so  *)
(* no status value and no network list is left to read.                    *)
stopBLEProvisioning(s) ==
  IF ~s.bleActive THEN s
  ELSE [Emit(s, [ev |-> "ble_stop"])
          EXCEPT !.bleActive = FALSE, !.statusValue = "",
                 !.networksValue = << >>]

isBLEProvisioningActive(s) == s.bleActive

hasNewWiFiCredentials(s) == s.newCredentialsReceived

(* getBLEWiFiSSID / getBLEWiFiPassword: ok is the return value, value the  *)
(* buffer.                                                                 *)
getBLEWiFiSSID(s) ==
  IF Len(s.receivedSSID) = 0 THEN [ok |-> FALSE, value |-> << >>]
  ELSE [ok |-> TRUE, value |-> strncpy(s.receivedSSID, SSID_MAX)]

getBLEWiFiPassword(s) ==
  IF Len(s.receivedPassword) = 0 THEN [ok |-> FALSE, value |-> << >>]
  ELSE [ok |-> TRUE, value |-> strncpy(s.receivedPassword, PASSWORD_MAX)]

clearBLECredentials(s) ==
  [s EXCEPT !.newCredentialsReceived = FALSE, !.receivedSSID = << >>,
            !.receivedPassword = << >>]

isClearWiFiRequested(s) == s.clearWiFiRequested

----------------------------------------------------------------------------
(* WiFi connection, main.cpp 581-628.  okAt is the attempt at which the    *)
(* station associates (0: at none): a failed attempt lasts the connect     *)
(* timeout, a successful one at least one status poll.                     *)

RECURSIVE connectAttempt(_, _, _, _, _, _)
connectAttempt(s, ssid, password, attempt, retryAttempts, okAt) ==
  IF attempt > retryAttempts THEN [s EXCEPT !.ret = FALSE]
  ELSE LET s1 == IF attempt > 1 THEN delay(s, WIFI_RETRY_DELAY) ELSE s
           s2 == [Emit(s1, [ev |-> "wifi_begin", ssid |-> ssid,
                            password |-> password])
                    EXCEPT !.wifiStatus = FALSE]
       IN  IF attempt = okAt
           THEN [Emit(delay(s2, WIFI_POLL_DELAY), [ev |-> "wifi_connected"])
                   EXCEPT !.wifiStatus = TRUE, !.wifiSSID = ssid,
                          !.wifiProvisioned = TRUE, !.ret = TRUE]
           ELSE connectAttempt(delay(s2, WIFI_CONNECT_TIMEOUT), ssid,
                               password, attempt + 1, retryAttempts, okAt)

(* Variant: a connectWiFi that erases the saved credentials when every    *)
(* attempt failed.                                                         *)
connectWiFi_eraseOnFailure(s, ssid, password, retryAttempts, okAt) ==
  LET r == connectAttempt(s, ssid, password, 1, retryAttempts, okAt)
  IN  IF r.ret THEN r
      ELSE [Emit(r, [ev |-> "nvs_clear"]) EXCEPT !.nvs = NoCredentials]

connectWiFi(s, ssid, password, retryAttempts, okAt) ==
  connectAttempt(s, ssid, password, 1, retryAttempts, okAt)

----------------------------------------------------------------------------
(* MQTT connection, main.cpp 801-860.  ok is the result of mqtt.connect,   *)
(* raw the probe reading.                                                  *)

mqttSubscribe(s, topic) ==
  [Emit(s, [ev |-> "subscribe", topic |-> topic])
     EXCEPT !.subscriptions = @ \cup {topic}]

(* Variant: a connectMqtt that subscribes to the equipment topics only.   *)
connectMqtt_noClearTopic(s, ok, raw) ==
  LET s0 == Emit(s, [ev |-> "mqtt_connect", ok |-> ok])
  IN  IF ~ok THEN [s0 EXCEPT !.ret = FALSE]
      ELSE LET s1 == [s0 EXCEPT !.mqttConnected = TRUE]
               s2 == mqttSubscribe(s1, TOPIC_PUMP_SET)
               s3 == mqttSubscribe(s2, TOPIC_VALVE_SET)
               s4 == mqttSubscribe(s3, TOPIC_TIMER_SET)
               s6 == publishPumpState(s4)
               s7 == publishValveState(s6)
               s8 == publishWiFiState(s7)
               s9 == publishTimerState(s8)
               s10 == [s9 EXCEPT
                         !.currentTemperature = readTemperature(raw)]
           IN  [publishTemperature(s10) EXCEPT !.ret = TRUE]

(* Variant: a channel bring-up whose snapshot leaves out the pump and the  *)
(* valve.                                                                  *)
connectMqtt_noEquipment(s, ok, raw) ==
  LET s0 == Emit(s, [ev |-> "mqtt_connect", ok |-> ok])
  IN  IF ~ok THEN [s0 EXCEPT !.ret = FALSE]
      ELSE LET s1 == [s0 EXCEPT !.mqttConnected = TRUE]
               s2 == mqttSubscribe(s1, TOPIC_PUMP_SET)
               s3 == mqttSubscribe(s2, TOPIC_VALVE_SET)
               s4 == mqttSubscribe(s3, TOPIC_TIMER_SET)
               s5 == mqttSubscribe(s4, TOPIC_WIFI_CLEAR)
               s8 == publishWiFiState(s5)
               s9 == publishTimerState(s8)
               s10 == [s9 EXCEPT
                         !.currentTemperature = readTemperature(raw)]
           IN  [publishTemperature(s10) EXCEPT !.ret = TRUE]

connectMqtt(s, ok, raw) ==
  LET s0 == Emit(s, [ev |-> "mqtt_connect", ok |-> ok])
  IN  IF ~ok THEN [s0 EXCEPT !.ret = FALSE]
      ELSE LET s1 == [s0 EXCEPT !.mqttConnected = TRUE]
               s2 == mqttSubscribe(s1, TOPIC_PUMP_SET)
               s3 == mqttSubscribe(s2, TOPIC_VALVE_SET)
               s4 == mqttSubscribe(s3, TOPIC_TIMER_SET)
               s5 == mqttSubscribe(s4, TOPIC_WIFI_CLEAR)
               s6 == publishPumpState(s5)
               s7 == publishValveState(s6)
               s8 == publishWiFiState(s7)
               s9 == publishTimerState(s8)
               s10 == [s9 EXCEPT
                         !.currentTemperature = readTemperature(raw)]
           IN  [publishTemperature(s10) EXCEPT !.ret = TRUE]

----------------------------------------------------------------------------
(* Boot, main.cpp 667-698 and 875-926.                                     *)

(* Variant: a boot that leaves a failed connection with saved credentials *)
(* to the loop and starts BLE only when nothing is saved.                  *)
initWiFiProvisioning_noFallback(s, okAt) ==
  LET c == loadWiFiCredentials(s)
  IN  IF c.ok
      THEN connectWiFi(s, c.ssid, c.password, WIFI_RETRY_ATTEMPTS, okAt)
      ELSE [initBLEProvisioning(s) EXCEPT !.ret = FALSE]

initWiFiProvisioning(s, okAt) ==
  LET c == loadWiFiCredentials(s)
      s1 == IF c.ok
            THEN connectWiFi(s, c.ssid, c.password, WIFI_RETRY_ATTEMPTS,
                             okAt)
            ELSE [s EXCEPT !.ret = FALSE]
  IN  IF c.ok /\ s1.ret THEN s1
      ELSE [initBLEProvisioning(s1) EXCEPT !.ret = FALSE]

(* syncTimeNTP and setupMqtt change no state of the model.                 *)
setup(s, okAt, mqttOk, raw) ==
  LET s1 == delay(Emit(s, [ev |-> "setup"]), 500)
      s2 == Emit(Emit(s1, [ev |-> "relay", pin |-> "pump",
                           level |-> FALSE]),
                 [ev |-> "relay", pin |-> "valve", level |-> FALSE])
      s3 == [s2 EXCEPT !.pumpState = FALSE, !.valveMode = 1,
                       !.currentTemperature = << 0 >>]
      s4 == initWiFiProvisioning(s3, okAt)
      s5 == IF s4.ret THEN connectMqtt(s4, mqttOk, raw) ELSE s4
  IN  [s5 EXCEPT !.pc = "loop"]


----------------------------------------------------------------------------
(* The control loop, main.cpp 938-1066.  The short yields delay(10) and    *)
(* delay(100) of a pass are part of the time that passes between passes.   *)

(* millis() - t0: the clock of the model never wraps.                      *)
Since(s, t0) == s.now - t0

(* mqtt.loop(): hands at most one inbound message of a subscribed topic    *)
(* to the callback, and only while the session is connected.               *)
mqttLoop(s, inbound) ==
  IF s.mqttConnected /\ inbound # << >>
     /\ inbound[1].topic \in s.subscriptions
  THEN onMqttMessage(s, inbound[1].topic, inbound[1].payload)
  ELSE s

(* Lines 942-987 up to the call of hasNewWiFiCredentials.                  *)
loopProvisioning(s) ==
  IF Since(s, s.lastBLECheck) > BLE_CHECK_INTERVAL
  THEN LET s1 == [s EXCEPT !.lastBLECheck = s.now]
       IN  IF hasNewWiFiCredentials(s1) THEN [s1 EXCEPT !.pc = "ble_flag"]
           ELSE s1
  ELSE s

(* Line 953, first operand: getBLEWiFiSSID(ssid).                          *)
loopReadSSID(s) ==
  LET g == getBLEWiFiSSID(s)
  IN  IF g.ok THEN [s EXCEPT !.locSsid = g.value, !.pc = "ble_ssid"]
      ELSE [s EXCEPT !.pc = "loop"]

(* Variant: a consumption that saves the pair before connecting.          *)
loopConsume_saveFirst(s, okAt, mqttOk, raw) ==
  LET g == getBLEWiFiPassword(s)
      s1 == saveWiFiCredentials(stopBLEProvisioning(s), s.locSsid, g.value)
      s2 == connectWiFi(s1, s.locSsid, g.value, WIFI_RETRY_ATTEMPTS, okAt)
      s3 == IF s2.ret
            THEN connectMqtt(clearBLECredentials(s2), mqttOk, raw)
            ELSE initBLEProvisioning(clearBLECredentials(s2))
  IN  IF g.ok THEN [s3 EXCEPT !.pc = "loop", !.locSsid = << >>]
      ELSE [s EXCEPT !.pc = "loop", !.locSsid = << >>]

(* Variant: a consumption that makes a single connection attempt.         *)
loopConsume_singleAttempt(s, okAt, mqttOk, raw) ==
  LET g == getBLEWiFiPassword(s)
      s1 == stopBLEProvisioning(s)
      s2 == connectWiFi(s1, s.locSsid, g.value, 1, okAt)
      s3 == IF s2.ret
            THEN connectMqtt(
                   clearBLECredentials(
                     saveWiFiCredentials(s2, s.locSsid, g.value)),
                   mqttOk, raw)
            ELSE initBLEProvisioning(clearBLECredentials(s2))
  IN  IF g.ok THEN [s3 EXCEPT !.pc = "loop", !.locSsid = << >>]
      ELSE [s EXCEPT !.pc = "loop", !.locSsid = << >>]

(* Line 953, second operand, to line 986.                                  *)
loopConsume(s, okAt, mqttOk, raw) ==
  LET g == getBLEWiFiPassword(s)
      s1 == stopBLEProvisioning(s)
      s2 == connectWiFi(s1, s.locSsid, g.value, WIFI_RETRY_ATTEMPTS, okAt)
      s3 == IF s2.ret
            THEN connectMqtt(
                   clearBLECredentials(
                     saveWiFiCredentials(s2, s.locSsid, g.value)),
                   mqttOk, raw)
            ELSE initBLEProvisioning(clearBLECredentials(s2))
  IN  IF g.ok THEN [s3 EXCEPT !.pc = "loop", !.locSsid = << >>]
      ELSE [s EXCEPT !.pc = "loop", !.locSsid = << >>]

(* Variant: a link recovery that gives up once the reconnect counter has   *)
(* passed WIFI_RETRY_ATTEMPTS.                                             *)
loopRecovery_giveUp(s, okAt, mqttOk, raw) ==
  LET s1 == [s EXCEPT !.lastWiFiCheck = s.now,
                      !.reconnectAttempts = @ + 1]
      c == loadWiFiCredentials(s1)
      s2 == connectWiFi(s1, c.ssid, c.password, 1, okAt)
  IN  IF c.ok
      THEN IF s1.reconnectAttempts > WIFI_RETRY_ATTEMPTS THEN s1
           ELSE IF s2.ret
           THEN LET s3 == [s2 EXCEPT !.reconnectAttempts = 0]
                IN  IF ~s3.mqttConnected THEN connectMqtt(s3, mqttOk, raw)
                    ELSE s3
           ELSE s2
      ELSE IF ~isBLEProvisioningActive(s1)
           THEN [initBLEProvisioning(s1) EXCEPT !.reconnectAttempts = 0]
           ELSE s1

(* Variant: a link recovery that attempts the connection before it looks   *)
(* at the result of loadWiFiCredentials.                                   *)
loopRecovery_connectFirst(s, okAt, mqttOk, raw) ==
  LET s1 == [s EXCEPT !.lastWiFiCheck = s.now,
                      !.reconnectAttempts = @ + 1]
      c == loadWiFiCredentials(s1)
      s2 == connectWiFi(s1, c.ssid, c.password, 1, okAt)
  IN  IF s2.ret
      THEN LET s3 == [s2 EXCEPT !.reconnectAttempts = 0]
           IN  IF ~s3.mqttConnected THEN connectMqtt(s3, mqttOk, raw)
               ELSE s3
      ELSE IF c.ok THEN s2
      ELSE IF ~isBLEProvisioningActive(s2)
           THEN [initBLEProvisioning(s2) EXCEPT !.reconnectAttempts = 0]
           ELSE s2

(* Lines 993-1023: link recovery.                                          *)
loopRecovery(s, okAt, mqttOk, raw) ==
  LET s1 == [s EXCEPT !.lastWiFiCheck = s.now,
                      !.reconnectAttempts = @ + 1]
      c == loadWiFiCredentials(s1)
      s2 == connectWiFi(s1, c.ssid, c.password, 1, okAt)
  IN  IF c.ok
      THEN IF s2.ret
           THEN LET s3 == [s2 EXCEPT !.reconnectAttempts = 0]
                IN  IF ~s3.mqttConnected THEN connectMqtt(s3, mqttOk, raw)
                    ELSE s3
           ELSE s2
      ELSE IF ~isBLEProvisioningActive(s1)
           THEN [initBLEProvisioning(s1) EXCEPT !.reconnectAttempts = 0]
           ELSE s1

(* Variant: a normal-operation pass that retries a failed mqtt.connect     *)
(* at once.                                                                *)
loopOperate_retryConnect(s, mqttOk, raw, inbound) ==
  LET s1 == updateTimer(s)
      s2 == IF Since(s1, s1.lastWiFiUpdate) > WIFI_STATE_INTERVAL
            THEN LET u == [s1 EXCEPT !.lastWiFiUpdate = s1.now]
                 IN  IF u.mqttConnected THEN publishWiFiState(u) ELSE u
            ELSE s1
      s3 == IF Since(s2, s2.lastTempUpdate) > TEMP_PUBLISH_INTERVAL
            THEN LET u == [s2 EXCEPT
                             !.lastTempUpdate = s2.now,
                             !.currentTemperature = readTemperature(raw)]
                 IN  IF u.mqttConnected THEN publishTemperature(u) ELSE u
            ELSE s2
      s4 == IF ~s3.mqttConnected
            THEN LET a == connectMqtt(s3, mqttOk, raw)
                 IN  IF a.ret THEN a ELSE connectMqtt(a, mqttOk, raw)
            ELSE s3
  IN  mqttLoop(s4, inbound)

(* Variant: a normal-operation pass that services the inbound messages     *)
(* before it looks at the session.                                         *)
loopOperate_dispatchFirst(s, mqttOk, raw, inbound) ==
  LET s1 == updateTimer(s)
      s2 == IF Since(s1, s1.lastWiFiUpdate) > WIFI_STATE_INTERVAL
            THEN LET u == [s1 EXCEPT !.lastWiFiUpdate = s1.now]
                 IN  IF u.mqttConnected THEN publishWiFiState(u) ELSE u
            ELSE s1
      s3 == IF Since(s2, s2.lastTempUpdate) > TEMP_PUBLISH_INTERVAL
            THEN LET u == [s2 EXCEPT
                             !.lastTempUpdate = s2.now,
                             !.currentTemperature = readTemperature(raw)]
                 IN  IF u.mqttConnected THEN publishTemperature(u) ELSE u
            ELSE s2
      s4 == mqttLoop(s3, inbound)
  IN  IF ~s4.mqttConnected THEN connectMqtt(s4, mqttOk, raw) ELSE s4

(* Lines 1036-1065: normal operation with the link up.                     *)
loopOperate(s, mqttOk, raw, inbound) ==
  LET s1 == updateTimer(s)
      s2 == IF Since(s1, s1.lastWiFiUpdate) > WIFI_STATE_INTERVAL
            THEN LET u == [s1 EXCEPT !.lastWiFiUpdate = s1.now]
                 IN  IF u.mqttConnected THEN publishWiFiState(u) ELSE u
            ELSE s1
      s3 == IF Since(s2, s2.lastTempUpdate) > TEMP_PUBLISH_INTERVAL
            THEN LET u == [s2 EXCEPT
                             !.lastTempUpdate = s2.now,
                             !.currentTemperature = readTemperature(raw)]
                 IN  IF u.mqttConnected THEN publishTemperature(u) ELSE u
            ELSE s2
      s4 == IF ~s3.mqttConnected THEN connectMqtt(s3, mqttOk, raw) ELSE s3
  IN  mqttLoop(s4, inbound)

(* Variant: a pass whose provisioning branch does not return.              *)
loop_fallThrough(s, okAt, mqttOk, raw, inbound) ==
  LET s0 == IF isBLEProvisioningActive(s) THEN loopProvisioning(s) ELSE s
  IN  IF ~s0.wifiStatus
         /\ Since(s0, s0.lastWiFiCheck) > WIFI_RECONNECT_INTERVAL
      THEN loopRecovery(s0, okAt, mqttOk, raw)
      ELSE IF ~s0.wifiStatus THEN s0
           ELSE loopOperate(s0, mqttOk, raw, inbound)

loop(s, okAt, mqttOk, raw, inbound) ==
  IF isBLEProvisioningActive(s) THEN loopProvisioning(s)
  ELSE IF ~s.wifiStatus
          /\ Since(s, s.lastWiFiCheck) > WIFI_RECONNECT_INTERVAL
  THEN loopRecovery(s, okAt, mqttOk, raw)
  ELSE LET s1 == IF s.wifiStatus /\ s.reconnectAttempts > 0
                 THEN [s EXCEPT !.reconnectAttempts = 0]
                 ELSE s
       IN  IF ~s1.wifiStatus THEN s1
           ELSE loopOperate(s1, mqttOk, raw, inbound)

----------------------------------------------------------------------------
(* Inputs.                                                                 *)

HomeSsid == << "h", "o", "m", "e" >>
HomePass == << "p", "w" >>
OtherSsid == << "x" >>
OtherPass == << "q" >>

(* The access points in range and the secrets they accept.                 *)
Networks == { << HomeSsid, HomePass >> }

(* The attempts at which a connection with the pair can succeed.           *)
OkAtChoices(ssid, password, retryAttempts) ==
  IF << ssid, password >> \in Networks THEN 0..retryAttempts ELSE {0}

SavedChoices == { NoCredentials,
                  [ssid |-> HomeSsid, password |-> HomePass] }

ProbeReadings == { DEVICE_DISCONNECTED_C, 253 }

(* Scan results.  HomeScan is what the radio sees of the home network; the *)
(* pool has a network with a name of the full 32 bytes, one with a name of *)
(* 20 bytes and a hidden one, which reports an empty name.                 *)
HomeScan == << [ssid |-> HomeSsid, rssi |-> -50, open |-> FALSE] >>

LongSsid == [i \in 1..SSID_MAX |-> "a"]
MidSsid == [i \in 1..20 |-> "b"]

ScanPool == { [ssid |-> LongSsid, rssi |-> -100, open |-> FALSE],
              [ssid |-> MidSsid, rssi |-> -50, open |-> TRUE],
              [ssid |-> << >>, rssi |-> -70, open |-> FALSE] }

ScanLists == UNION { [1..n -> ScanPool] : n \in 0..MaxNetworks }

BleWrites ==
  ({SSID_CHAR_UUID} \X { HomeSsid, OtherSsid, << >> })
    \cup ({PASSWORD_CHAR_UUID} \X { HomePass, OtherPass, << >> })
    \cup ({COMMAND_CHAR_UUID} \X { ChClearWifi, << "x" >> })

ChTimer15 ==
  << "{", "\"", "m", "o", "d", "e", "\"", ":", "1", ",",
     "\"", "d", "u", "r", "a", "t", "i", "o", "n", "\"", ":", "5", "}" >>
ChTimer20 ==
  << "{", "\"", "m", "o", "d", "e", "\"", ":", "2", ",",
     "\"", "d", "u", "r", "a", "t", "i", "o", "n", "\"", ":", "0", "}" >>
ChToggleLower == << " ", "t", "o", "g", "g", "l", "e", "\n" >>
ChBogus == << "u", "p" >>

Msg(topic, payload) == [topic |-> topic, payload |-> payload]

(* The messages the broker may deliver in a pass of the loop.              *)
Inbox ==
  { << >>,
    << Msg(TOPIC_PUMP_SET, ChToggleLower) >>,
    << Msg(TOPIC_VALVE_SET, Ch2) >>,
    << Msg(TOPIC_TIMER_SET, ChTimer15) >>,
    << Msg(TOPIC_WIFI_CLEAR, << >>) >> }

TimeSteps == { 10500 }

(* mqtt.connect is reached only in a pass that starts disconnected.        *)
MqttOkChoices == IF mqttConnected THEN { TRUE } ELSE BOOLEAN

----------------------------------------------------------------------------
(* The program: power-on state, boot, loop passes and the environment.     *)

Ram ==
  /\ pumpState = FALSE
  /\ valveMode = 1
  /\ currentTemperature = << 0 >>
  /\ wifiProvisioned = FALSE
  /\ timerActive = FALSE
  /\ timerMode = 1
  /\ timerDuration = 0
  /\ timerRemaining = 0
  /\ timerLastUpdate = 0
  /\ lastPublish = 0
  /\ lastBLECheck = 0
  /\ lastWiFiCheck = 0
  /\ reconnectAttempts = 0
  /\ lastWiFiUpdate = 0
  /\ lastTempUpdate = 0
  /\ bleActive = FALSE
  /\ newCredentialsReceived = FALSE
  /\ receivedSSID = << >>
  /\ receivedPassword = << >>
  /\ clearWiFiRequested = FALSE
  /\ statusValue = ""
  /\ networksValue = << >>
  /\ locSsid = << >>
  /\ now = 0

Init ==
  /\ Ram
  /\ nvs \in SavedChoices
  /\ scanResults = HomeScan
  /\ wifiStatus = FALSE
  /\ wifiSSID = << >>
  /\ mqttConnected = FALSE
  /\ subscriptions = {}
  /\ retained = [t \in StateTopics |-> << >>]
  /\ pc = "boot"
  /\ log = << >>
  /\ hist = << >>

Boot ==
  /\ pc = "boot"
  /\ \E okAt \in OkAtChoices(nvs.ssid, nvs.password, WIFI_RETRY_ATTEMPTS),
        mqttOk \in BOOLEAN, raw \in ProbeReadings :
       Apply(setup(Fresh, okAt, mqttOk, raw))
  /\ UNCHANGED hist

LoopPass ==
  /\ now <= MaxTime
  /\ pc = "loop"
  /\ \E okAt \in OkAtChoices(nvs.ssid, nvs.password, 1),
        mqttOk \in MqttOkChoices, raw \in ProbeReadings, inbound \in Inbox :
       Apply(loop(Fresh, okAt, mqttOk, raw, inbound))
  /\ UNCHANGED hist

LoopReadSSID ==
  /\ now <= MaxTime
  /\ pc = "ble_flag"
  /\ Apply(loopReadSSID(Fresh))
  /\ UNCHANGED hist

LoopConsume ==
  /\ now <= MaxTime
  /\ pc = "ble_ssid"
  /\ \E okAt \in OkAtChoices(locSsid, getBLEWiFiPassword(Cur).value,
                             WIFI_RETRY_ATTEMPTS),
        mqttOk \in BOOLEAN, raw \in ProbeReadings :
       Apply(loopConsume(Fresh, okAt, mqttOk, raw))
  /\ UNCHANGED hist

(* A write of the BLE client: the callback runs in the BLE task, between   *)
(* any two steps of the loop task.                                         *)
BleWrite ==
  /\ now <= MaxTime
  /\ bleActive
  /\ pc \in { "loop", "ble_flag", "ble_ssid" }
  /\ \E w \in BleWrites : Apply(onWrite(Fresh, w[1], w[2]))
  /\ UNCHANGED hist

(* The broker publishes the last will registered by connectMqtt            *)
(* (lines 813-820) when the session drops without a disconnect.            *)
LastWill(s) ==
  IF s.mqttConnected
  THEN [s EXCEPT !.mqttConnected = FALSE, !.subscriptions = {},
                 !.retained = [@ EXCEPT ![TOPIC_WIFI_STATE] =
                                          << WiFiDisconnectedJson >>]]
  ELSE s

WiFiDrop ==
  /\ now <= MaxTime
  /\ pc = "loop"
  /\ wifiStatus
  /\ Apply(LastWill([Fresh EXCEPT !.wifiStatus = FALSE]))
  /\ UNCHANGED hist

MqttDrop ==
  /\ now <= MaxTime
  /\ pc = "loop"
  /\ mqttConnected
  /\ Apply(LastWill(Fresh))
  /\ UNCHANGED hist

Advance ==
  /\ pc = "loop"
  /\ \E dt \in TimeSteps :
       /\ now + dt <= MaxIdle
       /\ Apply([Fresh EXCEPT !.now = @ + dt])
  /\ UNCHANGED hist

Next ==
  \/ Boot
  \/ LoopPass
  \/ LoopReadSSID
  \/ LoopConsume
  \/ BleWrite
  \/ WiFiDrop
  \/ MqttDrop
  \/ Advance

Spec == Init /\ [][Next]_vars

(* The program with a credential store that can fail during normal        *)
(* operation: from then on the namespace reads back empty, as              *)
(* preferences.getString does for a key it cannot read.                    *)
NvsFault ==
  /\ now <= MaxTime
  /\ pc = "loop"
  /\ nvs # NoCredentials
  /\ wifiStatus
  /\ Apply([Fresh EXCEPT !.nvs = NoCredentials])
  /\ UNCHANGED hist

NextFault ==
  \/ Next
  \/ NvsFault

SpecFault == Init /\ [][NextFault]_vars


----------------------------------------------------------------------------
(* The equipment, timer and command functions called one at a time, in any *)
(* order, with the session connected: the state space of the unit-level    *)
(* statements.  hist holds, since the last accepted startTimer, the timer  *)
(* snapshots published and a tick marker for every updateTimer call made   *)
(* while the timer was active.                                             *)

IsTimerSnapshot(e) == e.ev = "publish" /\ e.topic = TOPIC_TIMER_STATE

IsStart(e) == e.ev = "timer" /\ e.by = "start"

HistAfter(h, marks, lg) ==
  IF \E i \in 1..Len(lg) : IsStart(lg[i])
  THEN SelectSeq(lg, IsTimerSnapshot)
  ELSE h \o marks \o SelectSeq(lg, IsTimerSnapshot)

ApplyUnit(r, marks) ==
  /\ Apply(r)
  /\ hist' = HistAfter(hist, marks, r.log)

Call(fn, args) == [ev |-> "call", fn |-> fn, args |-> args]

CommandTopics == { TOPIC_PUMP_SET, TOPIC_VALVE_SET, TOPIC_TIMER_SET,
                   TOPIC_WIFI_CLEAR }

InitUnit ==
  /\ Ram
  /\ nvs = [ssid |-> HomeSsid, password |-> HomePass]
  /\ scanResults = HomeScan
  /\ wifiStatus = TRUE
  /\ wifiSSID = HomeSsid
  /\ mqttConnected = TRUE
  /\ subscriptions = CommandTopics
  /\ retained = [t \in StateTopics |-> << >>]
  /\ pc = "unit"
  /\ log = << >>
  /\ hist = << >>

UnitReady == pc = "unit" /\ now <= MaxUnitTime

UStartTimer ==
  /\ UnitReady
  /\ \E mode \in 1..3, d \in 0..MaxDuration :
       ApplyUnit(startTimer(Emit(Fresh, Call("startTimer", << mode, d >>)),
                            mode, d), << >>)

UStopTimer ==
  /\ UnitReady
  /\ ApplyUnit(stopTimer(Emit(Fresh, Call("stopTimer", << >>))), << >>)

(* k seconds pass, then the loop calls updateTimer.                        *)
UTick ==
  /\ UnitReady
  /\ \E k \in 1..MaxElapsed :
       ApplyUnit(updateTimer(Emit([Fresh EXCEPT !.now = @ + 1000 * k],
                                  Call("updateTimer", << k >>))),
                 IF timerActive THEN << [ev |-> "tick", seconds |-> k] >>
                 ELSE << >>)

USetValveMode ==
  /\ UnitReady
  /\ \E mode \in 1..3 :
       ApplyUnit(setValveMode(Emit(Fresh, Call("setValveMode", << mode >>)),
                              mode), << >>)

USetPumpState ==
  /\ UnitReady
  /\ \E target \in BOOLEAN :
       ApplyUnit(setPumpState(Emit(Fresh, Call("setPumpState",
                                               << target >>)),
                              target), << >>)

UnitInbox ==
  { Msg(TOPIC_PUMP_SET, ChON), Msg(TOPIC_PUMP_SET, ChOFF),
    Msg(TOPIC_PUMP_SET, ChToggleLower), Msg(TOPIC_PUMP_SET, Ch1),
    Msg(TOPIC_PUMP_SET, ChBogus),
    Msg(TOPIC_VALVE_SET, Ch1), Msg(TOPIC_VALVE_SET, Ch2),
    Msg(TOPIC_VALVE_SET, ChTOGGLE), Msg(TOPIC_VALVE_SET, ChBogus),
    Msg(TOPIC_TIMER_SET, ChTimer15), Msg(TOPIC_TIMER_SET, ChTimer20),
    Msg(TOPIC_TIMER_SET, ChBogus),
    Msg(TOPIC_WIFI_CLEAR, << >>) }

UDispatch ==
  /\ UnitReady
  /\ \E m \in UnitInbox :
       ApplyUnit(onMqttMessage(Fresh, m.topic, m.payload), << >>)

NextUnit ==
  \/ UStartTimer
  \/ UStopTimer
  \/ UTick
  \/ USetValveMode
  \/ USetPumpState

SpecUnit == InitUnit /\ [][NextUnit]_vars

(* The command handler and the timer tick alone.                           *)
NextCmd ==
  \/ UDispatch
  \/ UTick

SpecCmd == InitUnit /\ [][NextCmd]_vars

(* The command handler with a timer that startTimer has set running: the   *)
(* handler, the tick and the timer start, in any order.                    *)
NextRun ==
  \/ UStartTimer
  \/ UDispatch
  \/ UTick

SpecRun == InitUnit /\ [][NextRun]_vars

(* The provisioning service with a client that asks for the network list:  *)
(* every scan result list, and the writes to the networks characteristic.  *)
InitScan ==
  /\ Ram
  /\ nvs = NoCredentials
  /\ scanResults \in ScanLists
  /\ wifiStatus = FALSE
  /\ wifiSSID = << >>
  /\ mqttConnected = FALSE
  /\ subscriptions = {}
  /\ retained = [t \in StateTopics |-> << >>]
  /\ pc = "scan"
  /\ log = << >>
  /\ hist = << >>

(* setup() found no credentials and started the provisioning service.      *)
ScanBoot ==
  /\ pc = "scan"
  /\ Apply([initBLEProvisioning(Fresh) EXCEPT !.pc = "service"])
  /\ UNCHANGED hist

NetworksWrite ==
  /\ pc = "service"
  /\ bleActive
  /\ now < MaxScans * SCAN_RADIO_DELAY
  /\ Apply(onWrite(Fresh, NETWORKS_CHAR_UUID, << >>))
  /\ UNCHANGED hist

NextScan ==
  \/ ScanBoot
  \/ NetworksWrite

SpecScan == InitScan /\ [][NextScan]_vars

(* The control loop with a timer that startTimer has set running: the      *)
(* device is provisioned and connected, the timer branch of the handler    *)
(* calls startTimer, and the loop runs on while the link and the session   *)
(* come and go.                                                            *)
InitLink ==
  /\ Ram
  /\ nvs = [ssid |-> HomeSsid, password |-> HomePass]
  /\ scanResults = HomeScan
  /\ wifiStatus = TRUE
  /\ wifiSSID = HomeSsid
  /\ mqttConnected = TRUE
  /\ subscriptions = CommandTopics
  /\ retained = [t \in StateTopics |-> << >>]
  /\ pc = "loop"
  /\ log = << >>
  /\ hist = << >>

LinkStartTimer ==
  /\ now <= MaxUnitTime
  /\ pc = "loop"
  /\ ~timerActive
  /\ wifiStatus
  /\ mqttConnected
  /\ \E mode \in 1..2, d \in 1..MaxDuration :
       Apply(startTimer(Emit(Fresh, Call("startTimer", << mode, d >>)),
                        mode, d))
  /\ UNCHANGED hist

NextLink ==
  \/ LinkStartTimer
  \/ LoopPass
  \/ WiFiDrop
  \/ MqttDrop
  \/ Advance

SpecLink == InitLink /\ [][NextLink]_vars

(* The program of an unprovisioned device, with the pending pairs          *)
(* remembered: here hist is the set of the (identifier, secret) pairs that *)
(* the two pending fields have held at the same instant.                   *)
InitRace ==
  /\ Ram
  /\ nvs = NoCredentials
  /\ scanResults = HomeScan
  /\ wifiStatus = FALSE
  /\ wifiSSID = << >>
  /\ mqttConnected = FALSE
  /\ subscriptions = {}
  /\ retained = [t \in StateTopics |-> << >>]
  /\ pc = "boot"
  /\ log = << >>
  /\ hist = { << receivedSSID, receivedPassword >> }

(* A write of the BLE client, as BleWrite, that leaves a new pair pending. *)
RaceWrite ==
  /\ now <= MaxTime
  /\ bleActive
  /\ pc \in { "loop", "ble_flag", "ble_ssid" }
  /\ \E w \in BleWrites : Apply(onWrite(Fresh, w[1], w[2]))
  /\ hist' = hist \cup { << receivedSSID', receivedPassword' >> }

(* LoopConsume; a consumption that clears the pending fields ends the     *)
(* session, and the pairs of the session are forgotten with it.            *)
RaceConsume ==
  /\ now <= MaxTime
  /\ pc = "ble_ssid"
  /\ \E okAt \in OkAtChoices(locSsid, getBLEWiFiPassword(Cur).value,
                             WIFI_RETRY_ATTEMPTS),
        mqttOk \in BOOLEAN, raw \in ProbeReadings :
       Apply(loopConsume(Fresh, okAt, mqttOk, raw))
  /\ hist' = IF \E i \in 1..Len(log') : log'[i].ev = "ble_stop"
             THEN { << receivedSSID', receivedPassword' >> }
             ELSE hist

NextRace ==
  \/ Boot
  \/ LoopPass
  \/ LoopReadSSID
  \/ RaceConsume
  \/ RaceWrite
  \/ WiFiDrop
  \/ MqttDrop
  \/ Advance

SpecRace == InitRace /\ [][NextRace]_vars

(* The timer functions alone, with durations beyond the last ten seconds   *)
(* and ticks far enough apart for the publish interval to elapse.          *)
TimerDurations == { 2, 14, 21 }

TickSeconds == { 1, 6 }

TimerReady == pc = "unit" /\ now <= MaxTimerTime

TStartTimer ==
  /\ TimerReady
  /\ \E mode \in {1, 2}, d \in TimerDurations :
       Apply(startTimer(Emit(Fresh, Call("startTimer", << mode, d >>)),
                        mode, d))
  /\ UNCHANGED hist

TStopTimer ==
  /\ TimerReady
  /\ Apply(stopTimer(Emit(Fresh, Call("stopTimer", << >>))))
  /\ UNCHANGED hist

TTick ==
  /\ TimerReady
  /\ \E k \in TickSeconds :
       Apply(updateTimer(Emit([Fresh EXCEPT !.now = @ + 1000 * k],
                              Call("updateTimer", << k >>))))
  /\ UNCHANGED hist

NextTimer ==
  \/ TStartTimer
  \/ TStopTimer
  \/ TTick

SpecTimer == InitUnit /\ [][NextTimer]_vars

----------------------------------------------------------------------------
(* Reading the event log of the last handler run.                          *)

Has(lg, kind) == \E i \in 1..Len(lg) : lg[i].ev = kind

Count(lg, kind) == Len(SelectSeq(lg, LAMBDA e : e.ev = kind))

WithoutDelays(lg) == SelectSeq(lg, LAMBDA e : e.ev # "delay")

After(lg, i) == SubSeq(lg, i + 1, Len(lg))

IsTick(e) == e.ev = "tick"

IsStopSnapshot(e) == IsTimerSnapshot(e) /\ ~e.payload.active

----------------------------------------------------------------------------
(* C1: after an accepted startTimer(m, d), once the one-second ticks       *)
(* covering d seconds have run, the timer is inactive, the pump is off,    *)
(* the remaining time is 0 and exactly one snapshot with active = false    *)
(* and remaining = 0 has been published.                                   *)
C1_ExpiredAfterDuration ==
  LET ticks == SelectSeq(hist, IsTick)
      stops == SelectSeq(hist, IsStopSnapshot)
      started == /\ hist # << >>
                 /\ IsTimerSnapshot(hist[1])
                 /\ hist[1].payload.active
                 /\ hist[1].payload.remaining = hist[1].payload.duration
      covered == /\ \A i \in 1..Len(ticks) : ticks[i].seconds = 1
                 /\ Len(ticks) = hist[1].payload.duration
  IN  (pc = "unit" /\ started /\ covered)
        => /\ ~timerActive
           /\ ~pumpState
           /\ timerRemaining = 0
           /\ Len(stops) = 1
           /\ stops[1].payload.remaining = 0

(* C2: a timer command {"mode": 1, "duration": 5} dispatched on the        *)
(* timer/set topic while the timer is idle starts the timer in mode 1 with *)
(* duration 5.                                                             *)
C2_TimerCommandStarts ==
  [][ ( /\ ~timerActive
        /\ \E i \in 1..Len(log') :
             /\ log'[i].ev = "dispatch"
             /\ log'[i].topic = TOPIC_TIMER_SET
             /\ log'[i].payload = ChTimer15 )
        => /\ timerActive'
           /\ timerMode' = 1
           /\ timerDuration' = 5
           /\ timerRemaining' = 5 ]_vars

(* C3: whenever saved credentials exist and the link is down, a pass of    *)
(* the control loop made after the recheck interval has elapsed makes a    *)
(* connection attempt with the saved credentials.                          *)
C3_PeriodicRetry ==
  [][ ( /\ pc = "loop"
        /\ loadWiFiCredentials(Cur).ok
        /\ ~wifiStatus
        /\ Since(Cur, lastWiFiCheck) > WIFI_RECONNECT_INTERVAL
        /\ LoopPass )
        => \E i \in 1..Len(log') :
             /\ log'[i].ev = "wifi_begin"
             /\ log'[i].ssid = nvs.ssid
             /\ log'[i].password = nvs.password ]_vars

(* A connectWiFi call of the last handler run failed after exhausting its  *)
(* attempts: it began attempts and none associated.                        *)
ConnectFailed(lg) == Has(lg, "wifi_begin") /\ ~Has(lg, "wifi_connected")

ConnectSucceeded(lg) == Has(lg, "wifi_begin") /\ Has(lg, "wifi_connected")

(* C4: a step in which connectWiFi fails after exhausting its attempts     *)
(* (at boot, in link recovery, or with BLE-supplied credentials) leaves    *)
(* the persisted credentials unchanged: loadWiFiCredentials returns the    *)
(* same pair after the step as before it.                                  *)
C4_FailedConnectKeepsCredentials ==
  [][ ConnectFailed(log')
        => /\ nvs' = nvs
           /\ loadWiFiCredentials(Cur)' = loadWiFiCredentials(Cur) ]_vars

(* C4 witness: saved credentials exist and a connection with other,        *)
(* BLE-supplied credentials has just failed.                               *)
C4_Witness ==
  /\ ConnectFailed(log)
  /\ Has(log, "ble_stop")
  /\ loadWiFiCredentials(Cur).ok
  /\ \E i \in 1..Len(log) :
       log[i].ev = "wifi_begin" /\ log[i].ssid # nvs.ssid

(* C5: a credential consumption (the step that stops BLE and connects with *)
(* the pending pair) that succeeds persists the pair, clears the pending   *)
(* fields, leaves provisioning stopped and runs channel bring-up; one that *)
(* fails persists nothing, clears the pending fields, leaves the saved     *)
(* credentials unchanged and has provisioning active again.                *)
C5_ConsumptionOutcome ==
  [][ Has(log', "ble_stop")
        => LET first == CHOOSE i \in 1..Len(log') :
                          log'[i].ev = "wifi_begin"
               used == log'[first]
               cleared == /\ receivedSSID' = << >>
                          /\ receivedPassword' = << >>
                          /\ ~newCredentialsReceived'
           IN  /\ ConnectSucceeded(log') \/ ConnectFailed(log')
               /\ ConnectSucceeded(log')
                    => /\ nvs' = [ssid |-> used.ssid,
                                  password |-> used.password]
                       /\ Has(log', "nvs_save")
                       /\ cleared
                       /\ ~bleActive'
                       /\ ~Has(log', "ble_init")
                       /\ Has(log', "mqtt_connect")
               /\ ConnectFailed(log')
                    => /\ nvs' = nvs
                       /\ ~Has(log', "nvs_save")
                       /\ cleared
                       /\ bleActive'
                       /\ Has(log', "ble_init")
                       /\ ~Has(log', "mqtt_connect") ]_vars

(* C5 witness: a consumption has just succeeded and persisted a pair that  *)
(* replaces nothing or other credentials.                                  *)
C5_Witness ==
  /\ Has(log, "ble_stop")
  /\ ConnectSucceeded(log)
  /\ Has(log, "nvs_save")
  /\ nvs = [ssid |-> HomeSsid, password |-> HomePass]
  /\ ~bleActive

(* The events of a connectWiFi call: every attempt uses the pair, a        *)
(* success is the last event of the attempts, a failure comes only after   *)
(* `attempts` attempts.                                                    *)
AttemptsWith(lg, ssid, password, attempts) ==
  /\ Count(lg, "wifi_begin") >= 1
  /\ Count(lg, "wifi_begin") <= attempts
  /\ \A i \in 1..Len(lg) :
       lg[i].ev = "wifi_begin"
         => lg[i].ssid = ssid /\ lg[i].password = password
  /\ Count(lg, "wifi_connected") <= 1
  /\ \A i, j \in 1..Len(lg) :
       (lg[i].ev = "wifi_connected" /\ lg[j].ev = "wifi_begin") => j < i
  /\ ConnectFailed(lg) => Count(lg, "wifi_begin") = attempts

(* C6: during credential consumption the link connection is attempted      *)
(* exactly once.                                                           *)
C6_SingleAttempt ==
  Has(log, "ble_stop") => Count(log, "wifi_begin") = 1

(* C6, amended: during credential consumption the connection is attempted  *)
(* with the pending pair up to WIFI_RETRY_ATTEMPTS (3) times in sequence,  *)
(* stopping at the first success; the failure branch is taken only after   *)
(* all WIFI_RETRY_ATTEMPTS attempts failed, and the branch taken (save, or *)
(* restart of BLE) follows the last attempt.                               *)
C6_BoundedAttempts ==
  [][ Has(log', "ble_stop")
        => /\ AttemptsWith(log', locSsid, getBLEWiFiPassword(Cur).value,
                           WIFI_RETRY_ATTEMPTS)
           /\ \A i, j \in 1..Len(log') :
                ( /\ log'[i].ev \in { "nvs_save", "ble_init" }
                  /\ log'[j].ev = "wifi_begin" ) => j < i ]_vars

(* C6 witness: a consumption made all WIFI_RETRY_ATTEMPTS attempts and     *)
(* the last one associated.                                                *)
C6_Witness ==
  /\ Has(log, "ble_stop")
  /\ Count(log, "wifi_begin") = WIFI_RETRY_ATTEMPTS
  /\ ConnectSucceeded(log)

(* C7: once a write to the command attribute has set the clear-requested   *)
(* flag, a pass of the control loop made while the channel is connected    *)
(* erases the credentials and restarts the device.                         *)
C7_ClearFlagActedOn ==
  [][ ( /\ pc = "loop"
        /\ isClearWiFiRequested(Cur)
        /\ mqttConnected
        /\ LoopPass )
        => /\ Has(log', "restart")
           /\ pc' = "restart"
           /\ nvs' = NoCredentials ]_vars

(* C8: a message on the wifi/clear topic dispatched while the channel is   *)
(* connected produces, in this order and with nothing else between but the *)
(* waits: a retained, delivered disconnected-status publish on wifi/state, *)
(* the channel disconnect, the link disconnect with erasure, the clearing  *)
(* of the credential store, the restart; afterwards loadWiFiCredentials    *)
(* returns none.                                                           *)
C8_ClearOrder ==
  \A i \in 1..Len(log) :
    (log[i].ev = "dispatch" /\ log[i].topic = TOPIC_WIFI_CLEAR)
      => /\ WithoutDelays(After(log, i))
              = << [ev |-> "publish", topic |-> TOPIC_WIFI_STATE,
                    payload |-> [status |-> "disconnected"],
                    retain |-> TRUE, ok |-> TRUE],
                   [ev |-> "mqtt_disconnect"],
                   [ev |-> "wifi_disconnect", erase |-> TRUE],
                   [ev |-> "nvs_clear"],
                   [ev |-> "restart"] >>
         /\ retained[TOPIC_WIFI_STATE] = << [status |-> "disconnected"] >>
         /\ ~loadWiFiCredentials(Cur).ok
         /\ ~mqttConnected
         /\ ~wifiStatus
         /\ pc = "restart"

(* C8 witness: a wifi/clear message was dispatched on a device that had    *)
(* saved credentials and the device has restarted.                         *)
C8_Witness ==
  /\ pc = "restart"
  /\ \E i \in 1..Len(log) :
       log[i].ev = "dispatch" /\ log[i].topic = TOPIC_WIFI_CLEAR
  /\ Has(log, "nvs_clear")
  /\ wifiProvisioned

(* C9: at boot, saved credentials are tried in up to 3 sequential attempts *)
(* and the first success ends boot provisioned with BLE never started;     *)
(* without saved credentials no attempt is made; when every attempt failed *)
(* or nothing is saved, BLE provisioning is started and boot ends without  *)
(* connecting the channel.                                                 *)
C9_BootDecision ==
  [][ pc = "boot"
        => LET saved == loadWiFiCredentials(Cur)
           IN  /\ saved.ok
                    => /\ AttemptsWith(log', saved.ssid, saved.password,
                                       WIFI_RETRY_ATTEMPTS)
                       /\ Count(log', "wifi_begin") <= 3
               /\ ~saved.ok => Count(log', "wifi_begin") = 0
               /\ ConnectSucceeded(log')
                    => /\ wifiProvisioned'
                       /\ wifiStatus'
                       /\ ~bleActive'
                       /\ ~Has(log', "ble_init")
               /\ ~ConnectSucceeded(log')
                    => /\ bleActive'
                       /\ Count(log', "ble_init") = 1
                       /\ ~wifiProvisioned'
                       /\ ~Has(log', "mqtt_connect")
                       /\ ~mqttConnected' ]_vars

(* C9 witness: boot has just ended provisioned on the second attempt.      *)
C9_Witness ==
  /\ log # << >>
  /\ log[1].ev = "setup"
  /\ Count(log, "wifi_begin") = 2
  /\ ConnectSucceeded(log)
  /\ ~bleActive

(* The events of a successful connectMqtt that follow mqtt.connect: the    *)
(* four subscriptions, then the retained pump, valve, wifi and timer       *)
(* state.                                                                  *)
SnapshotShape(rest) ==
  /\ Len(rest) >= 8
  /\ \A k \in 1..4 : rest[k].ev = "subscribe"
  /\ << rest[1].topic, rest[2].topic, rest[3].topic, rest[4].topic >>
       = << TOPIC_PUMP_SET, TOPIC_VALVE_SET, TOPIC_TIMER_SET,
            TOPIC_WIFI_CLEAR >>
  /\ \A k \in 5..8 : rest[k].ev = "publish" /\ rest[k].retain /\ rest[k].ok
  /\ << rest[5].topic, rest[6].topic, rest[7].topic, rest[8].topic >>
       = << TOPIC_PUMP_STATE, TOPIC_VALVE_STATE, TOPIC_WIFI_STATE,
            TOPIC_TIMER_STATE >>
  /\ \A k \in 9..Len(rest) : rest[k].ev # "subscribe"

(* The connect's events are the last of the run, so the state they were    *)
(* taken from is the state now.                                            *)
SnapshotIsCurrent(rest) ==
  ~Has(rest, "dispatch")
    => /\ rest[5].payload = (IF pumpState THEN "ON" ELSE "OFF")
       /\ rest[6].payload = (IF valveMode = 1 THEN "1" ELSE "2")
       /\ rest[7].payload = [status |-> "connected", ssid |-> wifiSSID]
       /\ rest[8].payload = [active |-> timerActive,
                             remaining |-> timerRemaining,
                             mode |-> timerMode,
                             duration |-> timerDuration]
       /\ subscriptions = CommandTopics

TemperaturePublished(rest) ==
  /\ Len(rest) >= 9
  /\ rest[9].ev = "publish"
  /\ rest[9].topic = TOPIC_TEMP_STATE
  /\ rest[9].retain
  /\ rest[9].ok
  /\ << rest[9].payload >> = currentTemperature

(* C10: every successful connectMqtt subscribes to exactly the four        *)
(* command topics and then publishes retained pump, valve, wifi and timer  *)
(* state equal to the current device state plus a fresh temperature        *)
(* reading; a failed connectMqtt subscribes to nothing and publishes       *)
(* nothing.                                                                *)
C10_SnapshotWithTemperature ==
  \A i \in 1..Len(log) :
    log[i].ev = "mqtt_connect"
      => IF log[i].ok
         THEN /\ SnapshotShape(After(log, i))
              /\ SnapshotIsCurrent(After(log, i))
              /\ TemperaturePublished(After(log, i))
         ELSE After(log, i) = << >>

(* C10, amended: every successful connectMqtt subscribes to exactly the    *)
(* four command topics and then publishes retained pump, valve, wifi and   *)
(* timer state equal to the current device state, plus the fresh           *)
(* temperature reading when that reading is valid and no temperature       *)
(* message when the probe reports a fault; a failed connectMqtt subscribes *)
(* to nothing and publishes nothing.                                       *)
C10_SnapshotOnConnect ==
  \A i \in 1..Len(log) :
    log[i].ev = "mqtt_connect"
      => IF log[i].ok
         THEN /\ SnapshotShape(After(log, i))
              /\ SnapshotIsCurrent(After(log, i))
              /\ IF currentTemperature # NAN
                 THEN TemperaturePublished(After(log, i))
                 ELSE \A k \in 1..Len(log) :
                        log[k].ev = "publish"
                          => log[k].topic # TOPIC_TEMP_STATE
         ELSE /\ After(log, i) = << >>
              /\ ~mqttConnected
              /\ subscriptions = {}

(* C10 witness: the session has just been connected with the probe         *)
(* reporting a fault.                                                      *)
C10_Witness ==
  /\ log # << >>
  /\ log[Len(log)].ev = "publish"
  /\ log[Len(log)].topic = TOPIC_TIMER_STATE
  /\ \E i \in 1..Len(log) : log[i].ev = "mqtt_connect" /\ log[i].ok
  /\ currentTemperature = NAN
  /\ mqttConnected

(* C11: a loop pass that starts with the link up, provisioning inactive    *)
(* and the channel disconnected makes exactly one mqtt.connect attempt;    *)
(* no step of the program (boot, pass, consumption) makes more than one.   *)
C11_OneConnectPerPass ==
  [][ /\ Count(log', "mqtt_connect") <= 1
      /\ ( /\ pc = "loop"
           /\ wifiStatus
           /\ ~isBLEProvisioningActive(Cur)
           /\ ~mqttConnected
           /\ LoopPass )
           => Count(log', "mqtt_connect") = 1 ]_vars

(* C11 witness: a pass found the channel disconnected, made its one        *)
(* attempt and the broker refused it.                                      *)
C11_Witness ==
  /\ pc = "loop"
  /\ wifiStatus
  /\ ~bleActive
  /\ log # << >>
  /\ log[1].ev = "mqtt_connect"
  /\ ~log[1].ok
  /\ ~mqttConnected

(* The events of the link and channel reconnection logic.                  *)
IsReconnection(e) ==
  e.ev \in { "wifi_begin", "wifi_connected", "mqtt_connect", "subscribe",
             "ble_init", "ble_stop" }

IsTeardown(e) == e.ev \in { "mqtt_disconnect", "wifi_disconnect" }

(* C12: within a step, a command is dispatched only after all link and     *)
(* channel reconnection logic: no reconnection event follows a dispatch,   *)
(* the session is torn down after a dispatch only by the wifi/clear        *)
(* command itself, and a step that attempts a link connection (boot,       *)
(* recovery, consumption) dispatches nothing.                              *)
C12_DispatchLast ==
  /\ \A i, j \in 1..Len(log) :
       (log[i].ev = "dispatch" /\ i < j)
         => /\ ~IsReconnection(log[j])
            /\ log[j].ev # "dispatch"
            /\ IsTeardown(log[j]) => log[i].topic = TOPIC_WIFI_CLEAR
  /\ Has(log, "wifi_begin") => ~Has(log, "dispatch")

(* C12 witness: a pass reconnected the channel and then dispatched a       *)
(* command.                                                                *)
C12_Witness ==
  \E i, j \in 1..Len(log) :
    /\ i < j
    /\ log[i].ev = "mqtt_connect"
    /\ log[i].ok
    /\ log[j].ev = "dispatch"
    /\ log[j].topic = TOPIC_PUMP_SET

(* C13: a pass that starts with BLE provisioning active runs the           *)
(* provisioning path only: no link-recovery check, no timer tick, no       *)
(* periodic publish, no channel reconnect of the normal path and no        *)
(* command dispatch; a pass that starts with it inactive does not run the  *)
(* provisioning path.                                                      *)
C13_OnePathPerPass ==
  [][ (LoopPass \/ LoopReadSSID \/ LoopConsume)
        => IF isBLEProvisioningActive(Cur)
           THEN /\ UNCHANGED << lastWiFiCheck, reconnectAttempts,
                                lastWiFiUpdate, lastTempUpdate, lastPublish,
                                timerActive, timerRemaining, timerLastUpdate,
                                pumpState, valveMode >>
                /\ ~Has(log', "dispatch")
                /\ ~Has(log', "timer")
                /\ Has(log', "ble_stop")
                     \/ (~Has(log', "mqtt_connect") /\ ~Has(log', "publish")
                         /\ ~Has(log', "wifi_begin"))
           ELSE /\ UNCHANGED << lastBLECheck, newCredentialsReceived,
                                receivedSSID, receivedPassword, locSsid >>
                /\ pc' \in { "loop", "restart" }
                /\ ~Has(log', "ble_stop") ]_vars

(* C13 witness: a pass with provisioning active has just run its check     *)
(* while the link was down and the recovery interval had elapsed.          *)
C13_Witness ==
  /\ bleActive
  /\ pc = "loop"
  /\ ~wifiStatus
  /\ lastBLECheck = now
  /\ lastBLECheck > 0
  /\ Since(Cur, lastWiFiCheck) > WIFI_RECONNECT_INTERVAL

----------------------------------------------------------------------------
(* Reading the log of a call of the unit harness.                          *)

IsCallOf(lg, fn) == lg # << >> /\ lg[1].ev = "call" /\ lg[1].fn = fn

Publishes(lg) == SelectSeq(lg, LAMBDA e : e.ev = "publish")

IsValveRelay(e) == e.ev = "relay" /\ e.pin = "valve"

IsPumpRelay(e) == e.ev = "relay" /\ e.pin = "pump"

PublishOf(topic, payload) ==
  [ev |-> "publish", topic |-> topic, payload |-> payload,
   retain |-> TRUE, ok |-> TRUE]

(* Everything a call of the harness can change but the clock's log.        *)
unitState ==
  << pumpState, valveMode, currentTemperature, timerActive, timerMode,
     timerDuration, timerRemaining, timerLastUpdate, lastPublish,
     retained, mqttConnected, subscriptions, wifiStatus, nvs, now, pc >>

AcceptedStart(lg) ==
  /\ IsCallOf(lg, "startTimer")
  /\ lg[1].args[1] \in {1, 2}
  /\ lg[1].args[2] > 0

(* C14: an accepted startTimer(m, d) sets the valve to m (with its         *)
(* publish), waits the settle delay, turns the pump on (with its publish), *)
(* and only then enters Running with remaining = d and emits the snapshot. *)
C14_RunningAfterPumpOn ==
  AcceptedStart(log)
    => \E i1, i2, i3, i4, i5 \in 1..Len(log) :
         /\ i1 < i2 /\ i2 < i3 /\ i3 < i4 /\ i4 < i5
         /\ log[i1].ev = "publish" /\ log[i1].topic = TOPIC_VALVE_STATE
         /\ log[i2].ev = "delay"
         /\ IsPumpRelay(log[i3]) /\ log[i3].level
         /\ IsStart(log[i4])
         /\ IsTimerSnapshot(log[i5])

(* C14, amended: an accepted startTimer(m, d) first enters Running with    *)
(* remaining = d, then sets the valve to m (writing the relay only when    *)
(* the mode changes, publishing the valve state always), waits the settle  *)
(* delay, turns the pump on (with its publish) and emits the snapshot: the *)
(* timer is Running during the settle delay, before the pump is on.        *)
C14_StartOrder ==
  AcceptedStart(log)
    => LET m == log[1].args[1]
           d == log[1].args[2]
           steps == SelectSeq(After(log, 1), LAMBDA e : ~IsValveRelay(e))
       IN  /\ steps
                = << [ev |-> "timer", by |-> "start", active |-> TRUE,
                      remaining |-> d],
                     PublishOf(TOPIC_VALVE_STATE,
                               IF m = 1 THEN "1" ELSE "2"),
                     [ev |-> "delay", ms |-> VALVE_SWITCH_DELAY],
                     [ev |-> "relay", pin |-> "pump", level |-> TRUE],
                     PublishOf(TOPIC_PUMP_STATE, "ON"),
                     PublishOf(TOPIC_TIMER_STATE,
                               [active |-> TRUE, remaining |-> d,
                                mode |-> m, duration |-> d]) >>
           /\ Len(After(log, 1)) > Len(steps)
                => /\ Len(After(log, 1)) = Len(steps) + 1
                   /\ IsValveRelay(log[3])
                   /\ log[3].level = (m = 2)
           /\ timerActive /\ pumpState /\ valveMode = m
           /\ timerRemaining = d /\ timerDuration = d /\ timerMode = m

(* C14 witness: a start has just been accepted that switched the valves.   *)
C14_Witness ==
  /\ AcceptedStart(log)
  /\ \E i \in 1..Len(log) : IsValveRelay(log[i])
  /\ valveMode = 2

(* C15: stopTimer called while Idle changes no state and publishes nothing *)
(* (even if the pump is on); called while Running it turns the pump off,   *)
(* sets remaining = 0 and phase Idle, and emits one pump-state publish     *)
(* followed by one timer snapshot with active = false, remaining = 0 and   *)
(* mode and duration unchanged.                                            *)
C15_StopTimer ==
  [][ IsCallOf(log', "stopTimer")
        => IF ~timerActive
           THEN Len(log') = 1 /\ UNCHANGED unitState
           ELSE /\ After(log', 1)
                     = << [ev |-> "timer", by |-> "stop", active |-> FALSE,
                           remaining |-> 0],
                          [ev |-> "relay", pin |-> "pump", level |-> FALSE],
                          PublishOf(TOPIC_PUMP_STATE, "OFF"),
                          PublishOf(TOPIC_TIMER_STATE,
                                    [active |-> FALSE, remaining |-> 0,
                                     mode |-> timerMode,
                                     duration |-> timerDuration]) >>
                /\ ~timerActive'
                /\ timerRemaining' = 0
                /\ ~pumpState'
                /\ UNCHANGED << timerMode, timerDuration, valveMode >> ]_vars

(* C15 witness: a running timer has just been stopped before its end.      *)
C15_Witness ==
  /\ IsCallOf(log, "stopTimer")
  /\ Len(log) > 1
  /\ ~timerActive
  /\ timerDuration = MaxDuration
  /\ \E i \in 1..Len(hist) : IsTick(hist[i])

(* C16: startTimer(mode, d) with mode outside {1,2} or d = 0 changes       *)
(* nothing and publishes nothing, whether the timer is Idle or Running.    *)
C16_RejectedStart ==
  [][ ( /\ IsCallOf(log', "startTimer")
        /\ log'[1].args[1] \notin {1, 2} \/ log'[1].args[2] = 0 )
        => Len(log') = 1 /\ UNCHANGED unitState ]_vars

(* C16 witness: a start with duration 0 has just been rejected while the   *)
(* timer was running.                                                      *)
C16_Witness ==
  /\ IsCallOf(log, "startTimer")
  /\ log[1].args[1] = 2
  /\ log[1].args[2] = 0
  /\ timerActive
  /\ timerMode = 1

(* C17: a tick at which k whole seconds have elapsed since the last tick   *)
(* decrements remaining by min(k, remaining), and when remaining reaches 0 *)
(* the timer is stopped in that same tick.                                 *)
C17_DecrementPerSecond ==
  [][ (IsCallOf(log', "updateTimer") /\ timerActive)
        => LET k == (now' - timerLastUpdate) \div 1000
           IN  /\ timerRemaining' = timerRemaining - Min(k, timerRemaining)
               /\ timerRemaining' = 0 => ~timerActive' /\ ~pumpState' ]_vars

TimerSnapshots(lg) == SelectSeq(lg, IsTimerSnapshot)

(* C18: while Running, a tick that decrements remaining to r emits one     *)
(* snapshot when r <= 10 or r mod 10 = 0, and otherwise only when more     *)
(* than the publish interval has passed since the previous snapshot        *)
(* emitted by a tick (lastPublish, the time of that snapshot); every       *)
(* accepted start and every stop of a running timer emits exactly one      *)
(* snapshot.                                                               *)
C18_SnapshotEmission ==
  [][ LET snaps == TimerSnapshots(log')
          r == timerRemaining'
          due == (now' - lastPublish) > TIMER_PUBLISH_INTERVAL
      IN  /\ (IsCallOf(log', "updateTimer") /\ timerActive
                /\ timerRemaining > 0)
               => /\ r = timerRemaining - 1
                  /\ IF r <= 10 \/ r % 10 = 0 \/ due
                     THEN /\ Len(snaps) = 1
                          /\ snaps[1].payload
                               = [active |-> TRUE, remaining |-> r,
                                  mode |-> timerMode,
                                  duration |-> timerDuration]
                          /\ lastPublish' = now'
                     ELSE Len(snaps) = 0 /\ lastPublish' = lastPublish
          /\ (IsCallOf(log', "updateTimer") /\ timerActive
                /\ timerRemaining = 0)
               => Len(snaps) = 1 /\ ~snaps[1].payload.active
          /\ AcceptedStart(log')
               => /\ Len(snaps) = 1
                  /\ snaps[1].payload.active
                  /\ UNCHANGED lastPublish
          /\ (IsCallOf(log', "stopTimer") /\ timerActive)
               => /\ Len(snaps) = 1
                  /\ ~snaps[1].payload.active
                  /\ UNCHANGED lastPublish ]_vars

(* C18 witness: a tick has just decremented remaining to 11 and emitted a  *)
(* snapshot because the publish interval had passed.                       *)
C18_Witness ==
  /\ IsCallOf(log, "updateTimer")
  /\ timerActive
  /\ timerRemaining = 11
  /\ Len(TimerSnapshots(log)) = 1
  /\ lastPublish = now

(* The call setValveMode(m) made again, directly after the call whose log  *)
(* is the current one.                                                     *)
SecondSetValveMode ==
  setValveMode(Emit(Fresh, Call("setValveMode", log[1].args)),
               log[1].args[1])

ValveRelayWrites(lg) == Len(SelectSeq(lg, IsValveRelay))

ValidSetValveMode(lg) ==
  IsCallOf(lg, "setValveMode") /\ lg[1].args[1] \in {1, 2}

ValveName(m) == IF m = 1 THEN "1" ELSE "2"

(* C19: setValveMode(m) called twice in a row with the same m in {1,2}     *)
(* produces a single relay transition and two valve-state publishes, both  *)
(* reporting m; the second call never writes the relay and the valve mode  *)
(* after both calls is m.                                                  *)
C19_SingleTransition ==
  ValidSetValveMode(log)
    => LET m == log[1].args[1]
           second == SecondSetValveMode
       IN  /\ ValveRelayWrites(log) + ValveRelayWrites(second.log) = 1
           /\ Publishes(log) = << PublishOf(TOPIC_VALVE_STATE, ValveName(m)) >>
           /\ Publishes(second.log)
                = << PublishOf(TOPIC_VALVE_STATE, ValveName(m)) >>
           /\ ValveRelayWrites(second.log) = 0
           /\ second.valveMode = m

(* C19, amended: setValveMode(m) called twice in a row with the same m in  *)
(* {1,2} produces one relay transition when the valve was in the other     *)
(* mode before the first call and none when it was already in mode m, and  *)
(* two valve-state publishes, both reporting m; the second call never      *)
(* writes the relay and the valve mode after both calls is m.              *)
C19_AtMostOneTransition ==
  [][ ValidSetValveMode(log')
        => LET m == log'[1].args[1]
               second == SecondSetValveMode'
           IN  /\ ValveRelayWrites(log') = (IF valveMode = m THEN 0 ELSE 1)
               /\ Publishes(log')
                    = << PublishOf(TOPIC_VALVE_STATE, ValveName(m)) >>
               /\ valveMode' = m
               /\ ValveRelayWrites(second.log) = 0
               /\ Publishes(second.log)
                    = << PublishOf(TOPIC_VALVE_STATE, ValveName(m)) >>
               /\ second.valveMode = m ]_vars

(* C19 witness: setValveMode(2) has just switched the valves.              *)
C19_Witness ==
  /\ ValidSetValveMode(log)
  /\ ValveRelayWrites(log) = 1
  /\ valveMode = 2

IsPumpToggle(e) ==
  /\ e.ev = "dispatch"
  /\ e.topic = TOPIC_PUMP_SET
  /\ toUpperCase(payloadToString(e.payload)) = ChTOGGLE

(* C20: each TOGGLE message on the pump/set topic inverts the pump state   *)
(* and publishes the new state, once and retained; so from pump off two    *)
(* successive TOGGLE messages publish "ON" then "OFF" and leave the pump   *)
(* off.                                                                    *)
C20_ToggleInverts ==
  [][ (log' # << >> /\ IsPumpToggle(log'[1]))
        => /\ pumpState' = ~pumpState
           /\ After(log', 1)
                = << [ev |-> "relay", pin |-> "pump", level |-> ~pumpState],
                     PublishOf(TOPIC_PUMP_STATE,
                               IF pumpState THEN "OFF" ELSE "ON") >>
           /\ retained'[TOPIC_PUMP_STATE]
                = << IF pumpState THEN "OFF" ELSE "ON" >>
           /\ UNCHANGED << valveMode, timerActive, timerRemaining >> ]_vars

(* C20 witness: a TOGGLE has just switched the pump off again, the broker  *)
(* retaining "OFF".                                                        *)
C20_Witness ==
  /\ log # << >>
  /\ IsPumpToggle(log[1])
  /\ ~pumpState
  /\ retained[TOPIC_PUMP_STATE] = << "OFF" >>

----------------------------------------------------------------------------
(* Command verbs.                                                          *)

IsDispatchTo(e, topic) == e.ev = "dispatch" /\ e.topic = topic

Verb(e) == toUpperCase(payloadToString(e.payload))

(* The handler ran and did nothing but take the message: no equipment or  *)
(* timer variable changed, no relay was written, nothing was published.    *)
Dropped ==
  /\ Len(log') = 1
  /\ UNCHANGED << pumpState, valveMode, timerActive, timerMode,
                  timerDuration, timerRemaining, retained >>

(* C21 as stated: a pump/set message whose trimmed, case-folded payload is *)
(* not ON, OFF or TOGGLE, or a valve/set message whose payload is not 1,   *)
(* 2 or TOGGLE, is dropped: pump state, valve mode and timer state are     *)
(* unchanged and nothing is published.                                     *)
C21_OnlyNamedVerbs ==
  [][ (/\ log' # << >>
       /\ \/ /\ IsDispatchTo(log'[1], TOPIC_PUMP_SET)
             /\ Verb(log'[1]) # ChON
             /\ Verb(log'[1]) # ChOFF
             /\ Verb(log'[1]) # ChTOGGLE
          \/ /\ IsDispatchTo(log'[1], TOPIC_VALVE_SET)
             /\ Verb(log'[1]) # Ch1
             /\ Verb(log'[1]) # Ch2
             /\ Verb(log'[1]) # ChTOGGLE)
        => Dropped ]_vars

(* C21, amended: the pump branch also takes 1 for ON and 0 for OFF.  A     *)
(* pump/set message whose trimmed, case-folded payload is not ON, 1, OFF,  *)
(* 0 or TOGGLE, or a valve/set message whose payload is not 1, 2 or        *)
(* TOGGLE, is dropped: pump state, valve mode and timer state are          *)
(* unchanged and nothing is published.                                     *)
C21_UnknownVerbDropped ==
  [][ (/\ log' # << >>
       /\ \/ /\ IsDispatchTo(log'[1], TOPIC_PUMP_SET)
             /\ Verb(log'[1]) # ChON
             /\ Verb(log'[1]) # Ch1
             /\ Verb(log'[1]) # ChOFF
             /\ Verb(log'[1]) # Ch0
             /\ Verb(log'[1]) # ChTOGGLE
          \/ /\ IsDispatchTo(log'[1], TOPIC_VALVE_SET)
             /\ Verb(log'[1]) # Ch1
             /\ Verb(log'[1]) # Ch2
             /\ Verb(log'[1]) # ChTOGGLE)
        => Dropped ]_vars

(* C21 witness: an unknown verb on pump/set has just been dropped with     *)
(* the pump on and the valve in mode 2.                                    *)
C21_Witness ==
  /\ Len(log) = 1
  /\ IsDispatchTo(log[1], TOPIC_PUMP_SET)
  /\ log[1].payload = ChBogus
  /\ pumpState
  /\ valveMode = 2

(* The duration a timer/set payload carries, read the way the sender wrote *)
(* it: the number between the colon after "duration" and the closing brace.*)
DurationField(p) ==
  LET durationStart == indexOf(p, << ":" >>, indexOf(p, ChDurationKey, 0)) + 1
      durationEnd0 == indexOf(p, << "}" >>, durationStart)
      durationEnd == IF durationEnd0 = -1 THEN Len(p) ELSE durationEnd0
  IN  toInt(trim(substring(p, durationStart, durationEnd)))

IsStopRequest(e) ==
  /\ IsDispatchTo(e, TOPIC_TIMER_SET)
  /\ indexOf(payloadToString(e.payload), ChModeKey, 0) # -1
  /\ indexOf(payloadToString(e.payload), ChDurationKey, 0) # -1
  /\ DurationField(payloadToString(e.payload)) = 0

(* C22: a timer/set message carrying both a mode field and a duration      *)
(* field with duration 0, received while the timer is Running, stops the   *)
(* timer: the phase becomes Idle, the pump is off, remaining is 0 and a    *)
(* timer snapshot is emitted.                                              *)
C22_DurationZeroStops ==
  [][ (timerActive /\ log' # << >> /\ IsStopRequest(log'[1]))
        => /\ ~timerActive'
           /\ ~pumpState'
           /\ timerRemaining' = 0
           /\ \E i \in 1..Len(log') : IsTimerSnapshot(log'[i]) ]_vars

----------------------------------------------------------------------------
(* The network listing.                                                    *)

(* The networks of a scan that have a name, in scan order.                 *)
Visible(results) == SelectSeq(results, LAMBDA net : Len(net.ssid) > 0)

RECURSIVE Joined(_)
Joined(entries) ==
  IF Len(entries) = 0 THEN << >>
  ELSE IF Len(entries) = 1 THEN entries[1]
  ELSE entries[1] \o << "," >> \o Joined(After(entries, 1))

(* The listing of the first k named networks: whole entries, separated by  *)
(* commas, between the brackets.                                           *)
ListingOf(results, k) ==
  << "[" >>
    \o Joined([i \in 1..k |-> NetworkEntry(Visible(results)[i])])
    \o << "]" >>

(* C23: for every scan result list the listing returned by                 *)
(* scanWiFiNetworks is at most 400 bytes long and consists only of whole   *)
(* entries between '[' and ']': it is the listing of the first k named     *)
(* networks in scan order, where k is the first position at which one more *)
(* entry would take the listing over the budget (all of them when none     *)
(* does), so no partially written entry is emitted.                        *)
C23_ListingWithinBudget ==
  (log # << >> /\ log[1].ev = "ble_write"
     /\ log[1].uuid = NETWORKS_CHAR_UUID)
    => /\ Len(networksValue) <= 400
       /\ \E k \in 0..Len(Visible(scanResults)) :
            /\ networksValue = ListingOf(scanResults, k)
            /\ k < Len(Visible(scanResults))
                 => Len(ListingOf(scanResults, k + 1)) > 400

(* C23 witness: a scan of seven networks has been listed, the list was cut *)
(* after five entries and fills the budget to within one entry.            *)
C23_Witness ==
  /\ log # << >>
  /\ log[1].ev = "ble_write"
  /\ log[1].uuid = NETWORKS_CHAR_UUID
  /\ Len(Visible(scanResults)) = 7
  /\ networksValue = ListingOf(scanResults, 5)
  /\ Len(networksValue) > 332

----------------------------------------------------------------------------
(* Link recovery.                                                          *)

(* The link is down, provisioning is inactive and credentials are saved.   *)
Degraded ==
  /\ pc = "loop"
  /\ ~bleActive
  /\ ~wifiStatus
  /\ loadWiFiCredentials(Cur).ok

RecheckDue == Since(Cur, lastWiFiCheck) > WIFI_RECONNECT_INTERVAL

(* C24: while the link is down, provisioning is inactive and saved         *)
(* credentials exist, a loop pass makes a reconnect exactly when more than *)
(* the recheck interval (10 s) has passed since the last recheck, whatever *)
(* the value of the reconnect counter: one attempt, with the persisted     *)
(* credentials.  A success leaves the link connected, the counter at 0 and *)
(* the channel brought up if it was down; a failure leaves the link down,  *)
(* the credentials, the equipment and the channel as they were and         *)
(* provisioning inactive, so the next interval retries.                    *)
C24_RecheckRetries ==
  [][ (Degraded /\ LoopPass)
        => IF RecheckDue
           THEN /\ AttemptsWith(log', nvs.ssid, nvs.password, 1)
                /\ lastWiFiCheck' = now
                /\ nvs' = nvs
                /\ ~bleActive'
                /\ ConnectSucceeded(log')
                     => /\ wifiStatus'
                        /\ reconnectAttempts' = 0
                        /\ ~mqttConnected
                             => Count(log', "mqtt_connect") = 1
                /\ ConnectFailed(log')
                     => /\ ~wifiStatus'
                        /\ reconnectAttempts' = reconnectAttempts + 1
                        /\ ~Has(log', "mqtt_connect")
                        /\ ~Has(log', "publish")
                        /\ UNCHANGED << pumpState, valveMode, timerActive,
                                        timerRemaining, mqttConnected,
                                        retained, wifiProvisioned >>
           ELSE /\ ~Has(log', "wifi_begin")
                /\ UNCHANGED << lastWiFiCheck, reconnectAttempts,
                                wifiStatus, nvs, bleActive >> ]_vars

(* C24 witness: the fourth reconnect in a row has just failed, one more    *)
(* than WIFI_RETRY_ATTEMPTS, and the loop is still in recovery.            *)
C24_Witness ==
  /\ Degraded
  /\ ConnectFailed(log)
  /\ Count(log, "wifi_begin") = 1
  /\ reconnectAttempts = WIFI_RETRY_ATTEMPTS + 1

----------------------------------------------------------------------------
(* Pending credentials.                                                    *)

IsWriteTo(lg, uuid) ==
  lg # << >> /\ lg[1].ev = "ble_write" /\ lg[1].uuid = uuid

(* C25: pending credentials are marked complete exactly by a write to the  *)
(* secret attribute that leaves both the pending identifier and the        *)
(* pending secret non-empty, and the status then reads credentials_ready;  *)
(* a write to the identifier attribute stores the identifier and never     *)
(* changes the mark, so the secret written first and the identifier second *)
(* leave the session incomplete.                                           *)
C25_CompleteOnSecretWrite ==
  [][ /\ (newCredentialsReceived' /\ ~newCredentialsReceived)
           => /\ IsWriteTo(log', PASSWORD_CHAR_UUID)
              /\ Len(receivedSSID') > 0
              /\ Len(receivedPassword') > 0
              /\ statusValue' = "credentials_ready"
      /\ IsWriteTo(log', PASSWORD_CHAR_UUID)
           => /\ receivedPassword' = log'[1].value
              /\ receivedSSID' = receivedSSID
              /\ IF Len(receivedSSID') > 0 /\ Len(receivedPassword') > 0
                 THEN /\ newCredentialsReceived'
                      /\ statusValue' = "credentials_ready"
                 ELSE /\ newCredentialsReceived' = newCredentialsReceived
                      /\ statusValue' = "password_received"
      /\ IsWriteTo(log', SSID_CHAR_UUID)
           => /\ receivedSSID' = log'[1].value
              /\ receivedPassword' = receivedPassword
              /\ newCredentialsReceived' = newCredentialsReceived
              /\ statusValue' = "ssid_received" ]_vars

(* C25 witness: the secret was written first and the identifier has just   *)
(* been written; both are pending and the session is not complete.         *)
C25_Witness ==
  /\ IsWriteTo(log, SSID_CHAR_UUID)
  /\ Len(receivedSSID) > 0
  /\ Len(receivedPassword) > 0
  /\ ~newCredentialsReceived
  /\ statusValue = "ssid_received"
  /\ bleActive

(* C26: when a loop pass finds the link down at a recheck and no           *)
(* credentials are stored, it starts short-range provisioning and makes no *)
(* connection attempt; and provisioning is never initialised while it is   *)
(* already active: every initialisation happens with the service inactive  *)
(* or after the same handler has stopped it, and once per handler.         *)
C26_NoCredentialsStartsProvisioning ==
  [][ /\ (/\ pc = "loop"
          /\ ~bleActive
          /\ ~wifiStatus
          /\ RecheckDue
          /\ ~loadWiFiCredentials(Cur).ok
          /\ LoopPass)
           => /\ log' = << [ev |-> "ble_init"] >>
              /\ bleActive'
              /\ statusValue' = "waiting"
              /\ ~wifiStatus'
              /\ nvs' = nvs
      /\ Has(log', "ble_init")
           => /\ Count(log', "ble_init") = 1
              /\ \/ ~bleActive
                 \/ \E i, j \in 1..Len(log') :
                      /\ i < j
                      /\ log'[i].ev = "ble_stop"
                      /\ log'[j].ev = "ble_init" ]_vars

(* C26 witness: the device had been provisioned and connected, the link    *)
(* went down with nothing left in the store, and the recheck has just      *)
(* started provisioning.                                                   *)
C26_Witness ==
  /\ log = << [ev |-> "ble_init"] >>
  /\ pc = "loop"
  /\ bleActive
  /\ ~wifiStatus
  /\ wifiProvisioned
  /\ nvs = NoCredentials
  /\ lastWiFiCheck > 0

----------------------------------------------------------------------------
(* Timer and equipment invariants.                                         *)

(* C27: in every reachable state, timer phase Running implies              *)
(* durationSeconds > 0.                                                    *)
C27_RunningHasDuration == timerActive => timerDuration > 0

(* C27 witness: startTimer has just been called with the smallest duration *)
(* it accepts and the timer is Running.                                    *)
C27_Witness ==
  /\ IsCallOf(log, "startTimer")
  /\ log[1].args[2] = 1
  /\ timerActive
  /\ timerDuration = 1

(* C28: at the end of every loop pass in which the channel is connected,   *)
(* the pump state and the valve state the broker retains (the most recent  *)
(* retained publishes) equal the actual pump state and valve mode.         *)
C28_RetainedEquipmentState ==
  (pc = "loop" /\ mqttConnected)
    => /\ retained[TOPIC_PUMP_STATE]
            = << IF pumpState THEN "ON" ELSE "OFF" >>
       /\ retained[TOPIC_VALVE_STATE] = << ValveName(valveMode) >>

(* C28 witness: with the pump on and the valve in mode 2 the channel was   *)
(* lost, and the pass that has just ended brought it up again with the     *)
(* snapshot.                                                               *)
C28_Witness ==
  /\ pc = "loop"
  /\ mqttConnected
  /\ pumpState
  /\ valveMode = 2
  /\ Has(log, "mqtt_connect")
  /\ retained[TOPIC_PUMP_STATE] = << "ON" >>
  /\ retained[TOPIC_VALVE_STATE] = << "2" >>

(* C29: in every reachable state 0 <= remainingSeconds <= durationSeconds, *)
(* and remainingSeconds = 0 whenever the timer phase is Idle.              *)
C29_RemainingWithinDuration ==
  /\ 0 <= timerRemaining
  /\ timerRemaining <= timerDuration
  /\ ~timerActive => timerRemaining = 0

(* C29 witness: a timer that ran for a while has just been stopped, with   *)
(* a duration of more than one second.                                     *)
C29_Witness ==
  /\ IsCallOf(log, "stopTimer")
  /\ Has(log, "timer")
  /\ ~timerActive
  /\ timerRemaining = 0
  /\ timerDuration > 1

(* C30: in every reachable state after any sequence of pump, valve and     *)
(* timer commands and ticks, timer phase Running implies the pump is on.   *)
C30_RunningImpliesPumpOn == timerActive => pumpState

----------------------------------------------------------------------------
(* Safe sequencing.                                                        *)

(* C31: the valve position never changes in a state where the pump is on:  *)
(* every valve transition (from a valve command, a valve TOGGLE, or a      *)
(* timer start or restart) happens with the pump off.                      *)
C31_ValveSwitchesWithPumpOff ==
  [][ valveMode' # valveMode => ~pumpState ]_vars

(* C32: under fair execution of the control loop and advancing time, a     *)
(* timer that is Running eventually becomes Idle with the pump off,        *)
(* regardless of link state.  In step form: every pass of the loop that    *)
(* finds the timer Running a second or more after the last countdown step  *)
(* counts the remaining time down or stops the timer, also while the link  *)
(* is down.                                                                *)
C32_CountdownEveryPass ==
  [][ (/\ pc = "loop"
       /\ timerActive
       /\ Since(Cur, timerLastUpdate) >= 1000
       /\ LoopPass)
        => \/ timerRemaining' < timerRemaining
           \/ ~timerActive' /\ ~pumpState' ]_vars

----------------------------------------------------------------------------
(* Provisioning sessions.                                                  *)

(* C33: in every reachable state of a provisioning session, the            *)
(* credentials-complete flag (hasNewWiFiCredentials) implies that both the *)
(* pending identifier and the pending secret are non-empty, for any order  *)
(* and content of attribute writes.                                        *)
C33_CompleteImpliesBothPending ==
  (bleActive /\ hasNewWiFiCredentials(Cur))
    => Len(receivedSSID) > 0 /\ Len(receivedPassword) > 0

(* C34: persisted credentials change in only two ways.  A consumption of   *)
(* the pending short-range pair sets them to the pair the loop read from   *)
(* the pending fields, after a connection attempt with exactly that pair   *)
(* succeeded and before anything else is done; the wifi/clear command      *)
(* erases them.  No attribute write, failed attempt, link loss or channel  *)
(* event modifies them.                                                    *)
C34_StoreChanges ==
  [][ nvs' # nvs
        => \/ /\ pc = "ble_ssid"
              /\ Has(log', "ble_stop")
              /\ ConnectSucceeded(log')
              /\ nvs' = [ssid |-> locSsid,
                         password |-> getBLEWiFiPassword(Cur).value]
              /\ \A i \in 1..Len(log') :
                   log'[i].ev = "wifi_begin"
                     => /\ log'[i].ssid = nvs'.ssid
                        /\ log'[i].password = nvs'.password
              /\ Count(log', "nvs_save") = 1
              /\ \E i \in 1..(Len(log') - 1) :
                   /\ log'[i].ev = "wifi_connected"
                   /\ log'[i + 1].ev = "nvs_save"
           \/ /\ \E i, j \in 1..Len(log') :
                   /\ i < j
                   /\ IsDispatchTo(log'[i], TOPIC_WIFI_CLEAR)
                   /\ log'[j].ev = "nvs_clear"
              /\ ~Has(log', "nvs_save")
              /\ nvs' = NoCredentials ]_vars

(* C34 witness: the pair read from the pending fields has just been        *)
(* persisted, after provisioning was stopped and the connection with it    *)
(* succeeded.                                                              *)
C34_Witness ==
  /\ Has(log, "ble_stop")
  /\ ConnectSucceeded(log)
  /\ Has(log, "nvs_save")
  /\ nvs = [ssid |-> HomeSsid, password |-> HomePass]
  /\ receivedSSID = << >>
  /\ ~bleActive

(* C35: with short-range write events interleaved at any point of the      *)
(* control loop, the (identifier, secret) pair used for a connection       *)
(* attempt of a consumption is always a pair that was pending at one and   *)
(* the same instant: writes arriving between the completeness check and    *)
(* the two reads cannot produce a mixed pair.                              *)
C35_NoMixedPair ==
  [][ pc = "ble_ssid"
        => \A i \in 1..Len(log') :
             log'[i].ev = "wifi_begin"
               => << log'[i].ssid, log'[i].password >> \in hist ]_vars

====
